---- MODULE Spec2Model ----
(***************************************************************************)
(* Reflective memory kernel: verification model.                           *)
(*                                                                         *)
(* The module holds one group of variables per component.  Every          *)
(* component has its own next-state relation and specification; the       *)
(* actions of one component leave the variables of the others unchanged.  *)
(*                                                                         *)
(*   SpecChunk    MemChunker (src/ai/memchunker.py)                        *)
(*   SpecChunkFair  MemChunker, the loop of chunk() always scheduled       *)
(*   SpecLLM      LLMRouter, the extraction, curation and synthesis SLMs    *)
(*   SpecPolicy   Policy Engine                                            *)
(*   SpecPolicyCache  Policy Engine, checks and writes in parallel         *)
(*   SpecAct      Activation Engine                                        *)
(*   SpecInvite   workspace invitations                                    *)
(*   SpecAdmin    admin-only workspace operations                          *)
(*   SpecToken    share tokens                                             *)
(*   SpecIngest   Ingestion Coordinator, Curator, store and index          *)
(*   SpecConsult  Consultation Engine                                      *)
(*   SpecDoc      DocumentIngester and the ingestion endpoints             *)
(*   SpecTree     VectorIndexBuilder                                       *)
(*   SpecReflect  Reflection Loop scheduler                                *)
(*   SpecValidate FileValidator (src/ai/file_validator.py)                 *)
(*   SpecSdk      RMKClient (src/sdk/python/rmk/client.py)                 *)
(*                                                                         *)
(* The kernel components are written from the design document, sections   *)
(* 3 to 5 and 7; the AI service components from the Python sources.        *)
(***************************************************************************)
EXTENDS Integers, Sequences, FiniteSets, TLC

VARIABLES
    \* --- MemChunker._chunk_with_fallback -------------------------------
    cpc,        \* "idle" | "loop" | "done": position of the chunk() call
    ctext,      \* the text argument, a sequence of characters
    ccfg,       \* self.config (ChunkerConfig)
    position,   \* local variable position
    results,    \* local variable results (list of ChunkResult)
    \* --- AI service: LLMRouter, ExtractionSLM, CurationSLM, endpoints ----
    lpc,        \* "down" | "idle" | "done": position of the service
    lrouter,    \* LLMRouter: which API keys the environment holds
    lreq,       \* the request being served
    lllm,       \* what the provider did with the call of this request
    lcalls,     \* provider calls made while serving the request
    lslm,       \* outcome of ExtractionSLM.extract / CurationSLM.resolve
    lhttp,      \* HTTP status the endpoint answered with
    lprompt,    \* the user text embedded in the extraction prompt, if composed
    \* --- Policy Engine (spec section 4.4) -------------------------------
    policies,   \* the policies, in the order they were written
    pcache,     \* decision cache, most recently used entry first
    plast,      \* the last operation: a check (its AuditRecord) or a write
    pchecks,    \* thread -> the check it runs under the read lock, if any
    \* --- Activation Engine (spec section 4.5) ---------------------------
    anodes,     \* node id -> activation fields, for the nodes that exist
    anow,       \* the clock, in days
    alast,      \* the last operation of the engine
    \* --- Namespace & Identity (spec section 4.3) ------------------------
    wcreated,   \* whether the workspace exists
    wedges,     \* membership edges <<kind, user>> of the workspace
    invitations,\* invitation id -> Invitation
    tokens,     \* share token -> ShareToken
    rpc,        \* user -> token whose use the user took and has yet to join with
    wlast,      \* the last operation and its outcome
    \* --- Graph Store and Vector Index (spec sections 4.1, 4.2) ----------
    gnodes,     \* node id -> Node
    gedges,     \* directed edges <<from id, to id>>
    vindex,     \* ids held by the per-namespace vector indexes
    \* --- Ingestion Coordinator (spec sections 4.8, 4.9, 5) --------------
    jobs,       \* job id -> ingestion job
    nslock,     \* namespace -> job holding the namespace mutex, 0 if free
    \* --- Consultation Engine (spec section 4.10) ------------------------
    clast,      \* the last consult call and what it retrieved
    cpending,   \* ids whose asynchronous boost is still to run
    cconsults,  \* consult calls made
    \* --- DocumentIngester and /ingest-document -------------------------
    dpc,        \* "new" | "idle" | "tier3" | "done": position of the ingester
    drouter,    \* self.llm_router is set
    dreq,       \* the call being served: entry point and text
    dchunks,    \* local variable chunks of _process_document
    dcalled,    \* chunk_index of every chunk given to _extract_with_llm
    dentities,  \* local variable entities
    dllm_calls, \* local variable llm_calls
    dvision,    \* images looked at by the vision loop, and vision_calls
    dresult,    \* the IngestionResult returned, if any
    dhttp,      \* answer of the endpoint
    \* --- VectorIndexBuilder ---------------------------------------------
    tpc,        \* "idle" | "loop" | "done" | "raised": position of build_index
    tbuilder,   \* the builder: branching_factor
    tchunks,    \* the chunks argument: how many, how many distinct embeddings
    tlayers,    \* len() of every layer built so far, leaves first
    \* --- Reflection Loop (spec sections 4.11 and 5) --------------------
    rruns,      \* the reflection runs that are active, each with its phase
    rticks,     \* scheduler ticks fired
    rstarted,   \* runs started
    rskipped,   \* ticks skipped
    rserved,    \* ingestion and consultation requests served
    \* --- FileValidator (src/ai/file_validator.py) ----------------------
    fpc,        \* "idle" | "done": position of validate_base64_content
    flevel,     \* level of the module's logger
    fcall,      \* the filename and the content of the call
    fresult,    \* the ValidationResult, or the exception raised
    \* --- SDK client (src/sdk/python/rmk/client.py) ---------------------
    sdk_token,  \* self.token
    sdk_last    \* the last call: token before it, headers sent, raised

chunkVars == <<cpc, ctext, ccfg, position, results>>
llmVars == <<lpc, lrouter, lreq, lllm, lcalls, lslm, lhttp, lprompt>>
polVars == <<policies, pcache, plast, pchecks>>
actVars == <<anodes, anow, alast>>
wsVars == <<wcreated, wedges, invitations, tokens, rpc, wlast>>

kgVars == <<gnodes, gedges, vindex>>
ingVars == <<jobs, nslock>>
conVars == <<clast, cpending, cconsults>>
kernelVars == <<kgVars, ingVars, conVars>>
docVars ==
    <<dpc, drouter, dreq, dchunks, dcalled, dentities, dllm_calls, dvision,
      dresult, dhttp>>
treeVars == <<tpc, tbuilder, tchunks, tlayers>>
refVars == <<rruns, rticks, rstarted, rskipped, rserved>>
fvVars == <<fpc, flevel, fcall, fresult>>
sdkVars == <<sdk_token, sdk_last>>
auxVars == <<treeVars, refVars, fvVars, sdkVars>>

baseVars == <<chunkVars, llmVars, polVars, actVars, wsVars, kernelVars>>
otherDocVars == <<baseVars, auxVars>>
otherTreeVars == <<baseVars, docVars, refVars, fvVars, sdkVars>>
otherRefVars == <<baseVars, docVars, treeVars, fvVars, sdkVars>>
otherFvVars == <<baseVars, docVars, treeVars, refVars, sdkVars>>
otherSdkVars == <<baseVars, docVars, treeVars, refVars, fvVars>>

vars == <<baseVars, docVars, auxVars>>

Min(a, b) == IF a <= b THEN a ELSE b
Max(a, b) == IF a >= b THEN a ELSE b

(***************************************************************************)
(* MemChunker                                                              *)
(***************************************************************************)

\* Bounds of the chunker inputs.
MaxLen == 6
MaxSize == 5
\* Cap on len(results): above len(text) + 1 a call can only be looping
\* without progress.
MaxChunks == MaxLen + 2

Alphabet == {"a", ".", "!"}
Texts == UNION {[1..n -> Alphabet] : n \in 0..MaxLen}

\* delimiters = self.config.delimiters or b'\n.?'
DefaultDelimiters == {"\n", ".", "?"}
StrDelimiters(cfg) ==
    IF cfg.delimiters = {} THEN DefaultDelimiters ELSE cfg.delimiters

ChunkerConfigs ==
    [chunk_size : 1..MaxSize, delimiters : SUBSET Alphabet,
     prefix_mode : BOOLEAN, forward_fallback : BOOLEAN]

\* ChunkerConfig() defaults, with the chunk size scaled into the bound.
DefaultConfig ==
    [chunk_size |-> MaxSize, delimiters |-> {}, prefix_mode |-> FALSE,
     forward_fallback |-> TRUE]

\* The forward-fallback scenario of the test suite and of the design
\* document: "verylongwordwithoutdelimiters. Next sentence.", chunk_size 20,
\* delimiter '.', suffix mode, forward fallback on.
ExampleText ==
    <<"v", "e", "r", "y", "l", "o", "n", "g", "w", "o", "r", "d", "w", "i",
      "t", "h", "o", "u", "t", "d", "e", "l", "i", "m", "i", "t", "e", "r",
      "s", ".", " ", "N", "e", "x", "t", " ", "s", "e", "n", "t", "e", "n",
      "c", "e", ".">>
ExampleConfig ==
    [chunk_size |-> 20, delimiters |-> {"."}, prefix_mode |-> FALSE,
     forward_fallback |-> TRUE]
ExampleChunks ==
    << <<"v", "e", "r", "y", "l", "o", "n", "g", "w", "o", "r", "d", "w",
         "i", "t", "h", "o", "u", "t", "d", "e", "l", "i", "m", "i", "t",
         "e", "r", "s", ".">>,
       <<" ", "N", "e", "x", "t", " ", "s", "e", "n", "t", "e", "n", "c",
         "e", ".">> >>

\* Python text[a:b] for 0 <= a, 0 <= b (the end is clamped to len(text)).
Slice(text, a, b) == SubSeq(text, a + 1, Min(b, Len(text)))

\* ChunkResult(text=text[a:b], start_pos=a, end_pos=b)
ChunkResult(text, a, b) ==
    [text |-> Slice(text, a, b), start_pos |-> a, end_pos |-> b]

\* _find_last_delimiter_str: index of the last delimiter, -1 for None.
FindLastDelimiter(window, delims) ==
    LET hits == {i \in 1..Len(window) : window[i] \in delims}
    IN  IF hits = {} THEN -1
        ELSE (CHOOSE i \in hits : \A j \in hits : j <= i) - 1

\* Mutant of FindFirstDelimiter: the forward search returns the last
\* delimiter of the forward window.
FindFirstDelimiterFromEnd(window, delims) ==
    FindLastDelimiter(window, delims)

\* _find_first_delimiter_str: index of the first delimiter, -1 for None.
FindFirstDelimiter(window, delims) ==
    LET hits == {i \in 1..Len(window) : window[i] \in delims}
    IN  IF hits = {} THEN -1
        ELSE (CHOOSE i \in hits : \A j \in hits : i <= j) - 1

\* "if not self.config.prefix_mode: actual_pos += 1"
IncludeDelimiter(actual_pos, cfg) ==
    IF cfg.prefix_mode THEN actual_pos ELSE actual_pos + 1

\* Mutant of RemainingChunk: stop at the window end instead of the input end.
RemainingChunkTruncated(text, pos, target_end) ==
    ChunkResult(text, pos, Min(target_end, Len(text)))

\* "No delimiter found, take all remaining" / "Last chunk - return all
\* remaining": ChunkResult(text=text[position:], position, len(text)).
RemainingChunk(text, pos, target_end) ==
    ChunkResult(text, pos, Len(text))

\* chunk(text): "if not text: return []", else the fallback loop starts.
ChunkCall ==
    /\ cpc = "idle"
    /\ \E call \in (Texts \X ChunkerConfigs)
                      \cup {<<ExampleText, ExampleConfig>>} :
          /\ ctext' = call[1]
          /\ ccfg' = call[2]
          /\ position' = 0
          /\ results' = <<>>
          /\ cpc' = IF call[1] = <<>> THEN "done" ELSE "loop"
    /\ UNCHANGED <<llmVars, polVars, actVars, wsVars, kernelVars, docVars, auxVars>>

\* One evaluation of "while position < len(text)" and of the loop body.
ChunkLoop ==
    /\ cpc = "loop"
    /\ Len(results) < MaxChunks
    /\ UNCHANGED <<ctext, ccfg>>
    /\ UNCHANGED <<llmVars, polVars, actVars, wsVars, kernelVars, docVars, auxVars>>
    /\ IF ~(position < Len(ctext))
       THEN /\ cpc' = "done"
            /\ UNCHANGED <<position, results>>
       ELSE
        LET remaining  == Len(ctext) - position
            chunk_size == ccfg.chunk_size
            target_end == position + chunk_size
            delims     == StrDelimiters(ccfg)
            window     == Slice(ctext, position, target_end)
            split_pos  == FindLastDelimiter(window, delims)
            forward_window == Slice(ctext, target_end, Len(ctext))
            forward_pos    == FindFirstDelimiter(forward_window, delims)
        IN
        IF remaining <= chunk_size
        THEN /\ results' = Append(results,
                                  RemainingChunk(ctext, position, target_end))
             /\ cpc' = "done"
             /\ UNCHANGED position
        ELSE IF split_pos >= 0
        THEN LET actual_pos == IncludeDelimiter(position + split_pos, ccfg)
             IN  /\ results' = Append(results,
                                      ChunkResult(ctext, position, actual_pos))
                 /\ position' = actual_pos
                 /\ UNCHANGED cpc
        ELSE IF ccfg.forward_fallback
        THEN IF forward_pos >= 0
             THEN LET actual_pos ==
                          IncludeDelimiter(target_end + forward_pos, ccfg)
                  IN  /\ results' = Append(results,
                                      ChunkResult(ctext, position, actual_pos))
                      /\ position' = actual_pos
                      /\ UNCHANGED cpc
             ELSE /\ results' = Append(results,
                                  RemainingChunk(ctext, position, target_end))
                  /\ cpc' = "done"
                  /\ UNCHANGED position
        ELSE /\ results' = Append(results,
                                  ChunkResult(ctext, position, target_end))
             /\ position' = target_end
             /\ UNCHANGED cpc

\* The caller has consumed the returned list; the chunker is free again.
ChunkReturn ==
    /\ cpc = "done"
    /\ cpc' = "idle"
    /\ ctext' = <<>>
    /\ position' = 0
    /\ results' = <<>>
    /\ ccfg' = DefaultConfig
    /\ UNCHANGED <<llmVars, polVars, actVars, wsVars, kernelVars, docVars, auxVars>>

ChunkInit ==
    /\ cpc = "idle"
    /\ ctext = <<>>
    /\ ccfg = DefaultConfig
    /\ position = 0
    /\ results = <<>>

NextChunk ==
    \/ ChunkCall
    \/ ChunkLoop
    \/ ChunkReturn

(***************************************************************************)
(* AI service: LLMRouter, ExtractionSLM, CurationSLM, /extract, /curate    *)
(***************************************************************************)

\* Bound on the length of the user text of an extraction request.
MaxQueryLen == 3

\* Characters of the user text: letters of both cases, whitespace,
\* punctuation of the chitchat tail, and a letter of no chitchat word.
QueryAlphabet == {"h", "i", "H", " ", "!", "x"}
UserQueries == UNION {[1..n -> QueryAlphabet] : n \in 0..MaxQueryLen}

\* str.strip() and \s
Whitespace == {" ", "\t", "\n", "\r"}
\* the character class [\s!.?]
TailChars == Whitespace \cup {"!", ".", "?"}
\* re.IGNORECASE, on the letters of QueryAlphabet
Lower(c) == IF c = "H" THEN "h" ELSE IF c = "I" THEN "i" ELSE c

RECURSIVE LStrip(_)
LStrip(t) ==
    IF t # <<>> /\ Head(t) \in Whitespace THEN LStrip(Tail(t)) ELSE t

RECURSIVE RStrip(_)
RStrip(t) ==
    IF t # <<>> /\ t[Len(t)] \in Whitespace
    THEN RStrip(SubSeq(t, 1, Len(t) - 1)) ELSE t

Strip(t) == RStrip(LStrip(t))

\* The alternatives of CHITCHAT_PATTERNS, one sequence of characters each.
ChitchatWords ==
    {<<"h", "i">>,
     <<"h", "e", "l", "l", "o">>,
     <<"h", "e", "y">>,
     <<"y", "o">>,
     <<"s", "u", "p">>,
     <<"b", "y", "e">>,
     <<"g", "o", "o", "d", "b", "y", "e">>,
     <<"s", "e", "e", " ", "y", "o", "u">>,
     <<"l", "a", "t", "e", "r">>,
     <<"c", "y", "a">>,
     <<"t", "h", "a", "n", "k", "s">>,
     <<"t", "h", "a", "n", "k", " ", "y", "o", "u">>,
     <<"t", "h", "x">>,
     <<"t", "y">>,
     <<"o", "k">>,
     <<"o", "k", "a", "y">>,
     <<"s", "u", "r", "e">>,
     <<"y", "e", "s">>,
     <<"n", "o">>,
     <<"y", "e", "p">>,
     <<"n", "o", "p", "e">>,
     <<"g", "o", "o", "d">>,
     <<"g", "r", "e", "a", "t">>,
     <<"n", "i", "c", "e">>,
     <<"c", "o", "o", "l">>,
     <<"a", "w", "e", "s", "o", "m", "e">>,
     <<"h", "o", "w", " ", "a", "r", "e", " ", "y", "o", "u">>,
     <<"w", "h", "a", "t", "'", "s", " ", "u", "p">>,
     <<"h", "o", "w", "'", "s", " ", "i", "t", " ", "g", "o", "i", "n", "g">>,
     <<"l", "o", "l">>,
     <<"h", "a", "h", "a">>,
     <<"h", "e", "h", "e">>,
     <<"x", "d">>}

\* pattern.match(text) for r'^(w1|w2|...)[\s!.?]*$' with re.IGNORECASE
MatchesWordPattern(t) ==
    \E w \in ChitchatWords :
        /\ Len(t) >= Len(w)
        /\ \A i \in 1..Len(w) : Lower(t[i]) = w[i]
        /\ \A i \in (Len(w) + 1)..Len(t) : t[i] \in TailChars

\* pattern.match(text) for r'^[\s.!?]+$'
MatchesPunctuation(t) ==
    /\ t # <<>>
    /\ \A i \in 1..Len(t) : t[i] \in TailChars

\* is_chitchat(text)
IsChitchat(text) ==
    LET t == Strip(text)
    IN  \/ Len(t) < 3
        \/ MatchesWordPattern(t)
        \/ MatchesPunctuation(t)

\* --- Python values -------------------------------------------------------

\* A call either returns a value or raises.
Return(v) == [raised |-> FALSE, value |-> v]
Raise(e) == [raised |-> TRUE, value |-> e]

\* JSON values as json.loads builds them.
JList(items) == [t |-> "list", v |-> items]
JDict(fields) == [t |-> "dict", v |-> fields]
JNum(n) == [t |-> "num", v |-> n]
EmptyDict == JDict(<<>>)
EmptyList == JList(<<>>)

Emma == JDict([name |-> "Emma", type |-> "Entity"])
Boston == JDict([name |-> "Boston", type |-> "Entity"])
Nameless == JDict([description |-> "no name"])

\* What a model may answer with once its reply parses as JSON.
JsonValues ==
    { EmptyList, JList(<<Emma>>), JList(<<Emma, Boston>>),
      JList(<<Nameless>>), JList(<<JNum(1)>>),
      EmptyDict,
      JDict([winner_index |-> 1, reason |-> "more specific"]),
      JDict([winner_index |-> 2, reason |-> "more recent"]),
      JDict([winner_index |-> 3, reason |-> "neither"]),
      JDict([winner_index |-> 1]),
      JDict([reason |-> "cannot tell"]),
      JDict([brief |-> "Your manager is Bob.", confidence |-> 90]),
      JDict([confidence |-> 90]) }

\* The reply text of a model, by what extract_json can do with it.
NoneText == [form |-> "none"]        \* content is null (None)
PlainText == [form |-> "plain"]      \* holds neither '[' nor '{'
BrokenText == [form |-> "broken"]    \* holds a bracket, no prefix parses
JsonText(v) == [form |-> "json", value |-> v]
\* A reply given character by character; "1" is a number, "x" any other text.
CharsText(chars) == [form |-> "chars", chars |-> chars]
ReplyStrings ==
    {<<>>, <<"x">>, <<"[">>, <<"[", "1">>, <<"]", "[">>, <<"{">>,
     <<"[", "]">>, <<"x", "[", "]", "x">>, <<"{", "}">>, <<"{", "}", "}">>,
     <<"[", "{", "}", "]">>, <<"[", "{", "}", "]", "[">>,
     <<"[", "1", ",", "1", "]">>, <<"[", "1", ",", "]">>,
     <<"{", "[", "]", "}">>}
ReplyTexts ==
    {PlainText, BrokenText} \cup {JsonText(v) : v \in JsonValues}
        \cup {CharsText(c) : c \in ReplyStrings}

\* json.loads on the characters above: a number, an empty object, an array
\* of values.
RECURSIVE IsJson(_), IsJsonItems(_), JsonOf(_), JsonItemsOf(_)
IsJson(c) ==
    \/ c = <<"1">>
    \/ c = <<"{", "}">>
    \/ /\ Len(c) >= 2
       /\ c[1] = "[" /\ c[Len(c)] = "]"
       /\ Len(c) = 2 \/ IsJsonItems(SubSeq(c, 2, Len(c) - 1))
IsJsonItems(c) ==
    \/ IsJson(c)
    \/ \E k \in 2..(Len(c) - 1) :
          /\ c[k] = ","
          /\ IsJson(SubSeq(c, 1, k - 1))
          /\ IsJsonItems(SubSeq(c, k + 1, Len(c)))
JsonOf(c) ==
    IF c = <<"1">> THEN JNum(1)
    ELSE IF c = <<"{", "}">> THEN EmptyDict
    ELSE IF Len(c) = 2 THEN EmptyList
    ELSE JList(JsonItemsOf(SubSeq(c, 2, Len(c) - 1)))
JsonItemsOf(c) ==
    IF IsJson(c) THEN <<JsonOf(c)>>
    ELSE LET k == CHOOSE k \in 2..(Len(c) - 1) :
                     /\ c[k] = ","
                     /\ IsJson(SubSeq(c, 1, k - 1))
                     /\ IsJsonItems(SubSeq(c, k + 1, Len(c)))
         IN  <<JsonOf(SubSeq(c, 1, k - 1))>>
                 \o JsonItemsOf(SubSeq(c, k + 1, Len(c)))

\* extract_json() on a reply: from the first '[' or '{', the longest prefix
\* ending in the matching closer that json.loads accepts; then the fallback
\* from the first bracket to the last closer; {} when nothing parses.
ParseReply(response) ==
    LET opens == {i \in 1..Len(response) : response[i] \in {"[", "{"}}
    IN  IF opens = {} THEN EmptyDict
        ELSE LET start_idx == CHOOSE i \in opens : \A j \in opens : i <= j
                 closer == IF response[start_idx] = "[" THEN "]" ELSE "}"
                 Candidate(idx) == SubSeq(response, start_idx, idx)
                 indices == {i \in start_idx..Len(response) :
                                response[i] = closer}
                 good == {i \in indices : IsJson(Candidate(i))}
                 ends == {i \in 1..Len(response) : response[i] = closer}
                 end_idx == IF ends = {} THEN 0
                            ELSE CHOOSE i \in ends : \A j \in ends : i >= j
             IN  IF good # {}
                 THEN JsonOf(Candidate(CHOOSE i \in good :
                                           \A j \in good : i >= j))
                 ELSE IF IsJson(Candidate(end_idx))
                 THEN JsonOf(Candidate(end_idx))
                 ELSE EmptyDict

\* What the provider did with the HTTP call: an error (a status that
\* raise_for_status rejects, a timeout), or a reply whose content is a text
\* or null.
LLMOutcomes ==
    {[kind |-> "error", why |-> w] : w \in {"HTTPStatusError", "ReadTimeout"}}
    \cup {[kind |-> "content", content |-> c] :
             c \in ReplyTexts \cup {NoneText}}

\* --- LLMRouter -------------------------------------------------------------

Routers == [glm_key : BOOLEAN, nvidia_key : BOOLEAN]

\* self.default_provider
DefaultProvider(router) ==
    IF router.glm_key THEN "glm"
    ELSE IF router.nvidia_key THEN "nvidia" ELSE "ollama"

\* Mutant of CallNvidia: swallow the failure and answer with an error text,
\* as _call_glm and _call_ollama do.
CallNvidiaSwallow(router, out) ==
    IF ~router.nvidia_key THEN Raise("ValueError")
    ELSE IF out.kind = "error" THEN Return(PlainText)
    ELSE IF out.content = NoneText THEN Return(PlainText)
    ELSE Return(out.content)

\* _call_nvidia: no key raises ValueError; every exception of the HTTP call
\* is printed and re-raised; a null content becomes an apology text.
CallNvidia(router, out) ==
    IF ~router.nvidia_key THEN Raise("ValueError")
    ELSE IF out.kind = "error" THEN Raise(out.why)
    ELSE IF out.content = NoneText THEN Return(PlainText)
    ELSE Return(out.content)

\* _call_glm: no key raises ValueError; an exception of the HTTP call is
\* turned into the text "Error: GLM API call failed - ...".
CallGlm(router, out) ==
    IF ~router.glm_key THEN Raise("ValueError")
    ELSE IF out.kind = "error" THEN Return(PlainText)
    ELSE Return(out.content)

\* _call_ollama: an exception is turned into the text "Error: Ollama not
\* available ...".
CallOllama(router, out) ==
    IF out.kind = "error" THEN Return(PlainText) ELSE Return(out.content)

\* Whether the call reaches the provider (a missing key raises before it).
ProviderCalled(router, provider) ==
    CASE provider = "glm" -> router.glm_key
      [] provider = "nvidia" -> router.nvidia_key
      [] OTHER -> TRUE

\* generate(): "provider = provider or self.default_provider", then the
\* dispatch on the provider name ("None" stands for provider=None).
Generate(router, provider, out) ==
    LET p == IF provider = "None" THEN DefaultProvider(router) ELSE provider
    IN  CASE p = "glm" -> CallGlm(router, out)
          [] p = "nvidia" -> CallNvidia(router, out)
          [] OTHER -> CallOllama(router, out)

\* extract_json(): generate, then parse the reply; {} when the reply is None,
\* holds no bracket, or no candidate parses.
ExtractJson(router, provider, out) ==
    LET r == Generate(router, provider, out)
    IN  IF r.raised THEN r
        ELSE IF r.value.form = "json" THEN Return(r.value.value)
        ELSE IF r.value.form = "chars" THEN Return(ParseReply(r.value.chars))
        ELSE Return(EmptyDict)

\* --- ExtractionSLM ---------------------------------------------------------

\* self.provider = "nvidia"
ExtractionProvider == "nvidia"

\* Mutant of Extract: the chitchat filter is skipped.
ExtractNoFilter(router, user_query, out) ==
    LET r == ExtractJson(router, ExtractionProvider, out)
    IN  IF r.raised THEN r
        ELSE IF r.value.t = "list" THEN Return(r.value)
        ELSE Return(EmptyList)

\* Mutant of Extract: the parsed value is returned whatever its type.
ExtractNoTypeCheck(router, user_query, out) ==
    IF IsChitchat(user_query) THEN Return(EmptyList)
    ELSE ExtractJson(router, ExtractionProvider, out)

\* ExtractionSLM.extract
Extract(router, user_query, out) ==
    IF IsChitchat(user_query) THEN Return(EmptyList)
    ELSE LET r == ExtractJson(router, ExtractionProvider, out)
         IN  IF r.raised THEN r
             ELSE IF r.value.t = "list"
             THEN \* "for e in result: e.get('name')"
                  IF \E i \in 1..Len(r.value.v) : r.value.v[i].t # "dict"
                  THEN Raise("AttributeError")
                  ELSE Return(r.value)
             ELSE Return(EmptyList)

\* The user text as the f-string of extract puts it into the prompt:
\* 'User: "{user_query}"'.
PromptUserText(user_query) == user_query

\* The prompt of extract, composed once the chitchat filter has passed.
ExtractPrompt(user_query) ==
    IF IsChitchat(user_query) THEN [composed |-> FALSE]
    ELSE [composed |-> TRUE, user_text |-> PromptUserText(user_query)]

\* Provider calls made by extract.
ExtractCalls(router, user_query) ==
    IF IsChitchat(user_query) THEN 0
    ELSE IF ProviderCalled(router, ExtractionProvider) THEN 1 ELSE 0

\* --- CurationSLM -------------------------------------------------------------

\* {"winner_index": 2, "reason": "newer_timestamp"}
DefaultDecision == JDict([winner_index |-> 2, reason |-> "newer_timestamp"])

\* Python truth value of a list or a dict.
Truthy(j) == IF j.t = "list" THEN j.v # <<>> ELSE DOMAIN j.v # {}

\* Python "key in result" for a dict (its keys) or a list (its items).
Contains(j, key) ==
    IF j.t = "dict" THEN key \in DOMAIN j.v
    ELSE \E i \in 1..Len(j.v) : j.v[i].t = "str" /\ j.v[i].v = key

\* CurationSLM.resolve
Resolve(router, node1, node2, out) ==
    LET r == ExtractJson(router, "None", out)
    IN  IF r.raised THEN r
        ELSE IF Truthy(r.value) /\ Contains(r.value, "winner_index")
        THEN Return(r.value)
        ELSE Return(DefaultDecision)

\* --- SynthesisSLM ------------------------------------------------------------

\* self.provider = "nvidia"
SynthesisProvider == "nvidia"

\* {"brief": "I can help with that, ...", "confidence": 0.3}; confidence is
\* held in hundredths.
DefaultBrief ==
    JDict([brief |-> "I can help with that, but I don't have specific information.",
           confidence |-> 30])

\* SynthesisSLM.synthesize
Synthesize(router, out) ==
    LET r == ExtractJson(router, SynthesisProvider, out)
    IN  IF r.raised THEN r
        ELSE IF Truthy(r.value) /\ Contains(r.value, "brief")
        THEN Return(r.value)
        ELSE Return(DefaultBrief)

\* --- FastAPI endpoints -------------------------------------------------------

\* response_model=list[ExtractedEntity]: name and type are required.
ValidEntities(j) ==
    /\ j.t = "list"
    /\ \A i \in 1..Len(j.v) :
          /\ j.v[i].t = "dict"
          /\ {"name", "type"} \subseteq DOMAIN j.v[i].v

\* response_model=CurationResponse: winner_index and reason are required.
ValidDecision(j) ==
    /\ j.t = "dict"
    /\ {"winner_index", "reason"} \subseteq DOMAIN j.v

\* response_model=SynthesisResponse: brief and confidence are required.
ValidBrief(j) ==
    /\ j.t = "dict"
    /\ {"brief", "confidence"} \subseteq DOMAIN j.v

\* try: ... return result / except Exception: raise HTTPException(500);
\* a returned value the response model rejects is answered 500 as well.
HttpAnswer(r, valid) ==
    IF r.raised THEN [status |-> 500, why |-> "exception"]
    ELSE IF ~valid THEN [status |-> 500, why |-> "response_validation"]
    ELSE [status |-> 200, why |-> "ok"]

Facts == [name : {"favorite color"}, description : {"blue", "red"},
          created_at : 1..2]

NoRequest == [endpoint |-> "none"]
NoOutcome == [kind |-> "none"]
NoAnswer == [status |-> 0, why |-> "none"]

\* lifespan(): the router reads the API keys of the environment.
Startup ==
    /\ lpc = "down"
    /\ \E router \in Routers : lrouter' = router
    /\ lpc' = "idle"
    /\ UNCHANGED <<lreq, lllm, lcalls, lslm, lhttp, lprompt>>
    /\ UNCHANGED <<chunkVars, polVars, actVars, wsVars, kernelVars, docVars, auxVars>>

\* POST /extract
ExtractRequest ==
    /\ lpc = "idle"
    /\ \E user_query \in UserQueries, out \in LLMOutcomes :
          LET r == Extract(lrouter, user_query, out)
          IN  /\ lreq' = [endpoint |-> "extract", user_query |-> user_query]
              /\ lllm' = out
              /\ lcalls' = ExtractCalls(lrouter, user_query)
              /\ lslm' = r
              /\ lhttp' = HttpAnswer(r, r.raised \/ ValidEntities(r.value))
              /\ lprompt' = ExtractPrompt(user_query)
    /\ lpc' = "done"
    /\ UNCHANGED lrouter
    /\ UNCHANGED <<chunkVars, polVars, actVars, wsVars, kernelVars, docVars, auxVars>>

\* POST /curate
CurateRequest ==
    /\ lpc = "idle"
    /\ \E node1 \in Facts, node2 \in Facts, out \in LLMOutcomes :
          LET r == Resolve(lrouter, node1, node2, out)
          IN  /\ lreq' = [endpoint |-> "curate", node1 |-> node1,
                          node2 |-> node2]
              /\ lllm' = out
              /\ lcalls' = IF ProviderCalled(lrouter, DefaultProvider(lrouter))
                           THEN 1 ELSE 0
              /\ lslm' = r
              /\ lhttp' = HttpAnswer(r, r.raised \/ ValidDecision(r.value))
    /\ lpc' = "done"
    /\ UNCHANGED <<lrouter, lprompt>>
    /\ UNCHANGED <<chunkVars, polVars, actVars, wsVars, kernelVars, docVars, auxVars>>

\* POST /synthesize
SynthesizeRequest ==
    /\ lpc = "idle"
    /\ \E facts \in 0..1, out \in LLMOutcomes :
          LET r == Synthesize(lrouter, out)
          IN  /\ lreq' = [endpoint |-> "synthesize", facts |-> facts]
              /\ lllm' = out
              /\ lcalls' = IF ProviderCalled(lrouter, SynthesisProvider)
                           THEN 1 ELSE 0
              /\ lslm' = r
              /\ lhttp' = HttpAnswer(r, r.raised \/ ValidBrief(r.value))
    /\ lpc' = "done"
    /\ UNCHANGED <<lrouter, lprompt>>
    /\ UNCHANGED <<chunkVars, polVars, actVars, wsVars, kernelVars, docVars, auxVars>>

\* The answer has been sent; the service waits for the next request.
Respond ==
    /\ lpc = "done"
    /\ lpc' = "idle"
    /\ lreq' = NoRequest
    /\ lllm' = NoOutcome
    /\ lcalls' = 0
    /\ lslm' = Return(EmptyList)
    /\ lhttp' = NoAnswer
    /\ lprompt' = [composed |-> FALSE]
    /\ UNCHANGED lrouter
    /\ UNCHANGED <<chunkVars, polVars, actVars, wsVars, kernelVars, docVars, auxVars>>

LLMInit ==
    /\ lpc = "down"
    /\ lrouter = [glm_key |-> FALSE, nvidia_key |-> FALSE]
    /\ lreq = NoRequest
    /\ lllm = NoOutcome
    /\ lcalls = 0
    /\ lslm = Return(EmptyList)
    /\ lhttp = NoAnswer
    /\ lprompt = [composed |-> FALSE]

NextLLM ==
    \/ Startup
    \/ ExtractRequest
    \/ CurateRequest
    \/ SynthesizeRequest
    \/ Respond

\* The provider call of the request was made and failed.
LLMCallFailed == lpc = "done" /\ lcalls > 0 /\ lllm.kind = "error"

\* C10: a failure of the LLM provider call is never propagated: extract
\* returns the empty list, resolve returns the default decision, and the
\* /extract and /curate callers see no error.
LLMFailureNeverPropagates ==
    LLMCallFailed =>
        /\ ~lslm.raised
        /\ lhttp.status = 200
        /\ lreq.endpoint = "extract" => lslm.value = EmptyList
        /\ lreq.endpoint = "curate" => lslm.value = DefaultDecision

\* The user text of the request is, once trimmed, shorter than 3 characters
\* or a full match of a chitchat pattern.
ShortOrChitchat ==
    /\ lreq.endpoint = "extract"
    /\ LET t == Strip(lreq.user_query)
       IN  Len(t) < 3 \/ MatchesWordPattern(t) \/ MatchesPunctuation(t)

\* C11: for a user text that, trimmed, is shorter than 3 characters or fully
\* matches a chitchat pattern, extract returns the empty list and makes no
\* LLM call.
ChitchatShortCircuits ==
    ShortOrChitchat =>
        /\ ~lslm.raised
        /\ lslm.value = EmptyList
        /\ lcalls = 0

\* A greeting of three characters in mixed case was answered with the empty
\* list and without a call, although the key is set and the model would have
\* replied with entities.
ChitchatWitness ==
    /\ ShortOrChitchat
    /\ Len(Strip(lreq.user_query)) = 3
    /\ \E i \in 1..3 : lreq.user_query[i] \in {"H", "I"}
    /\ lrouter.nvidia_key
    /\ lllm = [kind |-> "content", content |-> JsonText(JList(<<Emma>>))]
    /\ lslm = Return(EmptyList)
    /\ lcalls = 0

\* No JSON array can be read from the reply: it is null or holds no
\* bracket, or no slice from its first bracket is a JSON array.
NotAnArray(content) ==
    CASE content.form \in {"none", "plain", "broken"} -> TRUE
      [] content.form = "json" -> content.value.t # "list"
      [] OTHER ->
           LET c == content.chars
               opens == {i \in 1..Len(c) : c[i] \in {"[", "{"}}
           IN  \A i \in opens, j \in 1..Len(c) :
                   (\A k \in opens : i <= k) =>
                       ~(c[i] = "[" /\ IsJson(SubSeq(c, i, j)))

\* The extraction prompt was sent and the model replied.
ExtractionReplied ==
    /\ lreq.endpoint = "extract"
    /\ lcalls = 1
    /\ lllm.kind = "content"

\* C12: when the reply to an extraction prompt cannot be parsed as JSON, or
\* parses to something that is not an array, extract returns the empty list
\* and raises nothing.
UnparseableReplyGivesEmptyList ==
    (ExtractionReplied /\ NotAnArray(lllm.content)) =>
        lslm = Return(EmptyList)

\* The model replied with an opening bracket and an item list that
\* json.loads rejects; extract returned the empty list.
UnparseableReplyWitness ==
    /\ ExtractionReplied
    /\ lllm.content = CharsText(<<"[", "1", ",", "]">>)
    /\ lslm = Return(EmptyList)
    /\ lhttp.status = 200

\* The curation prompt was answered and the reply holds no winner_index.
CurationAbstained ==
    /\ lreq.endpoint = "curate"
    /\ lcalls = 1
    /\ lllm.kind = "content"
    /\ CASE lllm.content.form = "json" ->
                ~(lllm.content.value.t = "dict"
                  /\ "winner_index" \in DOMAIN lllm.content.value.v)
         [] OTHER -> TRUE

\* C13: when the curation LLM abstains, resolve names as winner the fact
\* with the newer created_at, in whichever argument position it is.
AbstainNewerWins ==
    CurationAbstained =>
        /\ ~lslm.raised
        /\ lreq.node1.created_at > lreq.node2.created_at =>
               lslm.value.v.winner_index = 1
        /\ lreq.node1.created_at < lreq.node2.created_at =>
               lslm.value.v.winner_index = 2

(***************************************************************************)
(* Policy Engine (spec sections 3 and 4.4)                                 *)
(***************************************************************************)

\* Bound on the number of policies held at once.
MaxPolicies == 2
\* Entries the "small in-memory LRU cache" holds.
CacheCapacity == 1

PolicyIds == 1..MaxPolicies

\* Typed strings are sequences of their parts: "user:alice" is
\* <<"user", "alice">>, "ns:user_alice" is <<"ns", "user_alice">>, and the
\* wildcard "*" is <<"*">>.
Wildcard == <<"*">>
Principals == {<<"user", "alice">>, <<"user", "bob">>}
Resources == {<<"ns", "user_alice">>, <<"ns", "user_bob">>}
PolicyActions == {"READ", "WRITE"}

\* What a policy may list as subject and as resource: an exact value, a
\* prefix of one, the wildcard.
SubjectPatterns == {<<"user", "alice">>, <<"user">>}
ResourcePatterns == {<<"ns", "user_alice">>, Wildcard}

PolicyBodies ==
    [effect : {"ALLOW", "DENY"}, subject : SubjectPatterns,
     resource : ResourcePatterns]

IsPrefix(pat, val) ==
    /\ Len(pat) <= Len(val)
    /\ \A i \in 1..Len(pat) : pat[i] = val[i]

\* Mutant of Matches: the wildcard and prefixes are not honoured.
MatchesExactOnly(pat, val) == pat = val

\* A pattern matches a value exactly, as a prefix, or as the wildcard.
Matches(pat, val) == pat = Wildcard \/ IsPrefix(pat, val)

PolicyMatches(pol, principal, resource) ==
    /\ Matches(pol.subject, principal)
    /\ Matches(pol.resource, resource)

\* The namespace of a user principal is user_<id>.
OwnNamespace(principal) ==
    CASE principal = <<"user", "alice">> -> "user_alice"
      [] principal = <<"user", "bob">> -> "user_bob"
      [] OTHER -> "none"

\* "absence of any match defaults to ALLOW for in-namespace principals and
\* DENY otherwise"
DefaultDecisionFor(principal, resource) ==
    IF resource = <<"ns", OwnNamespace(principal)>> THEN "allow" ELSE "deny"

\* Index of the first policy of the given effect that matches, 0 if none.
FirstMatch(pols, effect, principal, resource) ==
    LET hits == {i \in 1..Len(pols) :
                    /\ pols[i].effect = effect
                    /\ PolicyMatches(pols[i], principal, resource)}
    IN  IF hits = {} THEN 0 ELSE CHOOSE i \in hits : \A j \in hits : i <= j

\* Mutant of Evaluate: the first matching policy, in writing order, decides.
EvaluateFirstMatch(pols, principal, action, resource) ==
    LET hits == {i \in 1..Len(pols) :
                    PolicyMatches(pols[i], principal, resource)}
        first == CHOOSE i \in hits : \A j \in hits : i <= j
    IN  IF hits = {}
        THEN [decision |-> DefaultDecisionFor(principal, resource),
              matchedPolicyId |-> 0, reason |-> "default"]
        ELSE [decision |-> IF pols[first].effect = "DENY" THEN "deny"
                           ELSE "allow",
              matchedPolicyId |-> pols[first].id, reason |-> "policy"]

\* Evaluation: any matching DENY decides deny; otherwise any matching ALLOW
\* decides allow; otherwise the default.
Evaluate(pols, principal, action, resource) ==
    LET d == FirstMatch(pols, "DENY", principal, resource)
        a == FirstMatch(pols, "ALLOW", principal, resource)
    IN  IF d # 0
        THEN [decision |-> "deny", matchedPolicyId |-> pols[d].id,
              reason |-> "policy"]
        ELSE IF a # 0
        THEN [decision |-> "allow", matchedPolicyId |-> pols[a].id,
              reason |-> "policy"]
        ELSE [decision |-> DefaultDecisionFor(principal, resource),
              matchedPolicyId |-> 0, reason |-> "default"]

\* Index of the cache entry for a key, 0 if the key is not cached.
CacheIndex(cache, key) ==
    LET hits == {i \in 1..Len(cache) : cache[i].key = key}
    IN  IF hits = {} THEN 0 ELSE CHOOSE i \in hits : TRUE

\* The cache with entry i removed.
CacheWithout(cache, i) ==
    SubSeq(cache, 1, i - 1) \o SubSeq(cache, i + 1, Len(cache))

\* The cache after a lookup of key that produced result: the entry moves to
\* the front and the least recently used entry is evicted when over capacity.
CacheTouch(cache, key, result) ==
    LET i == CacheIndex(cache, key)
        rest == IF i = 0 THEN cache ELSE CacheWithout(cache, i)
        all == <<[key |-> key, result |-> result]>> \o rest
    IN  SubSeq(all, 1, Min(Len(all), CacheCapacity))

\* Mutant of InvalidateCache: a policy write leaves the cache as it is.
KeepCache(cache) == cache

\* "it MUST be invalidated on any policy write"
InvalidateCache(cache) == <<>>

\* Threads that run checks side by side.
CheckThreads == {"t1", "t2"}
NoCheck == [key |-> <<>>]

\* Mutant of WriteLockFree: a write does not wait for the checks in flight.
WriteLockIgnored(checks) == TRUE

\* "Policy cache uses read-write locking": a write takes the lock once no
\* check holds it for reading.
WriteLockFree(checks) == \A t \in DOMAIN checks : checks[t] = NoCheck

IdsInUse == {policies[i].id : i \in 1..Len(policies)}

\* POST /admin/policies with a new id
WritePolicy(ids, bodies) ==
    /\ Len(policies) < MaxPolicies
    /\ \E id \in ids \ IdsInUse, body \in bodies :
          policies' = Append(policies,
                             [id |-> id, effect |-> body.effect,
                              subject |-> body.subject,
                              resource |-> body.resource])
    /\ WriteLockFree(pchecks)
    /\ pcache' = InvalidateCache(pcache)
    /\ plast' = [op |-> "write"]
    /\ UNCHANGED pchecks
    /\ UNCHANGED <<chunkVars, llmVars, actVars, wsVars, kernelVars, docVars, auxVars>>

CreatePolicy == WritePolicy(PolicyIds, PolicyBodies)

\* POST /admin/policies with the id of an existing policy: it is replaced.
UpdatePolicy ==
    /\ \E i \in 1..Len(policies), body \in PolicyBodies :
          /\ [id |-> policies[i].id, effect |-> body.effect,
              subject |-> body.subject, resource |-> body.resource]
                 # policies[i]
          /\ policies' = [policies EXCEPT ![i] =
                             [id |-> policies[i].id, effect |-> body.effect,
                              subject |-> body.subject,
                              resource |-> body.resource]]
    /\ WriteLockFree(pchecks)
    /\ pcache' = InvalidateCache(pcache)
    /\ plast' = [op |-> "write"]
    /\ UNCHANGED pchecks
    /\ UNCHANGED <<chunkVars, llmVars, actVars, wsVars, kernelVars, docVars, auxVars>>

\* DELETE /admin/policies/{id}
DeletePolicy ==
    /\ \E i \in 1..Len(policies) :
          policies' = SubSeq(policies, 1, i - 1)
                      \o SubSeq(policies, i + 1, Len(policies))
    /\ WriteLockFree(pchecks)
    /\ pcache' = InvalidateCache(pcache)
    /\ plast' = [op |-> "write"]
    /\ UNCHANGED pchecks
    /\ UNCHANGED <<chunkVars, llmVars, actVars, wsVars, kernelVars, docVars, auxVars>>

\* check(principal, action, resource): answered from the cache when the key
\* is cached, evaluated otherwise; every call produces an AuditRecord.
PolicyCheck(cache, pols, principal, action, resource) ==
    LET key == <<principal, action, resource>>
        i == CacheIndex(cache, key)
    IN  IF i # 0 THEN cache[i].result
        ELSE Evaluate(pols, principal, action, resource)

Check ==
    /\ \E principal \in Principals, action \in PolicyActions,
          resource \in Resources :
          LET key == <<principal, action, resource>>
              result == PolicyCheck(pcache, policies, principal, action,
                                    resource)
          IN  /\ pcache' = CacheTouch(pcache, key, result)
              /\ plast' = [op |-> "check", principal |-> principal,
                           action |-> action, resource |-> resource,
                           decision |-> result.decision,
                           matchedPolicyId |-> result.matchedPolicyId,
                           reason |-> result.reason]
    /\ UNCHANGED <<policies, pchecks>>
    /\ UNCHANGED <<chunkVars, llmVars, actVars, wsVars, kernelVars, docVars, auxVars>>

\* A check run by a thread of its own, first half: the thread takes the
\* lock for reading, looks the key up and evaluates it on a miss.
BeginCheck ==
    /\ \E t \in CheckThreads, principal \in Principals,
          action \in {"READ"}, resource \in Resources :
          /\ pchecks[t] = NoCheck
          /\ pchecks' = [pchecks EXCEPT ![t] =
                 [key |-> <<principal, action, resource>>,
                  result |-> PolicyCheck(pcache, policies, principal, action,
                                         resource)]]
    /\ UNCHANGED <<policies, pcache, plast>>
    /\ UNCHANGED <<chunkVars, llmVars, actVars, wsVars, kernelVars, docVars, auxVars>>

\* Second half: the decision is cached and audited, the lock released.
EndCheck ==
    /\ \E t \in CheckThreads :
          /\ pchecks[t] # NoCheck
          /\ pcache' = CacheTouch(pcache, pchecks[t].key, pchecks[t].result)
          /\ plast' = [op |-> "check", principal |-> pchecks[t].key[1],
                       action |-> pchecks[t].key[2],
                       resource |-> pchecks[t].key[3],
                       decision |-> pchecks[t].result.decision,
                       matchedPolicyId |-> pchecks[t].result.matchedPolicyId,
                       reason |-> pchecks[t].result.reason]
          /\ pchecks' = [pchecks EXCEPT ![t] = NoCheck]
    /\ UNCHANGED policies
    /\ UNCHANGED <<chunkVars, llmVars, actVars, wsVars, kernelVars, docVars, auxVars>>

PolicyInit ==
    /\ policies = <<>>
    /\ pcache = <<>>
    /\ plast = [op |-> "none"]
    /\ pchecks = [t \in CheckThreads |-> NoCheck]

\* Checks and writes of concurrent callers.
NextPolicyCache ==
    \/ CreatePolicy
    \/ UpdatePolicy
    \/ DeletePolicy
    \/ BeginCheck
    \/ EndCheck

NextPolicy ==
    \/ CreatePolicy
    \/ UpdatePolicy
    \/ DeletePolicy
    \/ Check

\* Some DENY policy matches the subject and the resource of the last check.
DenyMatchesLast ==
    /\ plast.op = "check"
    /\ \E i \in 1..Len(policies) :
          /\ policies[i].effect = "DENY"
          /\ PolicyMatches(policies[i], plast.principal, plast.resource)

\* Some ALLOW policy matches the subject and the resource of the last check.
AllowMatchesLast ==
    /\ plast.op = "check"
    /\ \E i \in 1..Len(policies) :
          /\ policies[i].effect = "ALLOW"
          /\ PolicyMatches(policies[i], plast.principal, plast.resource)

\* C2: whenever a DENY policy matches the subject and the resource of a
\* check (exactly, by prefix or by the wildcard), the check returns deny,
\* whatever ALLOW policies also match and in whatever order they were written.
DenyOverridesAllow == DenyMatchesLast => plast.decision = "deny"

\* A check denied although an ALLOW policy written before the DENY policy
\* matches too, the DENY matching by prefix or wildcard only.
DenyOverridesWitness ==
    /\ DenyMatchesLast
    /\ plast.decision = "deny"
    /\ \E i, j \in 1..Len(policies) :
          /\ i < j
          /\ policies[i].effect = "ALLOW"
          /\ PolicyMatches(policies[i], plast.principal, plast.resource)
          /\ policies[j].effect = "DENY"
          /\ PolicyMatches(policies[j], plast.principal, plast.resource)
          /\ policies[j].subject # plast.principal
          /\ policies[j].resource # plast.resource

(***************************************************************************)
(* Activation Engine (spec sections 3 and 4.5)                             *)
(***************************************************************************)

\* Bounds: days the clock runs, accesses counted per node.
MaxDays == 3
MaxAccess == 2

\* Activation is a real in [0.0, 1.0]; the model counts thousandths.
Scale == 1000
DefaultActivation == 500       \* 0.5
DefaultBoost == 150            \* boost amount 0.15
DailyRate == 5                 \* dailyRate 0.005
ProtectionWindow == 1          \* 24 h, in days

ActNodeIds == {"n1", "n2"}
\* Amounts a boost is called with: the default, and one that saturates at once.
BoostAmounts == {DefaultBoost, Scale}
\* Daily rates decay is configured with: the default, and the extreme 1.0.
DecayRates == {DailyRate, Scale}

\* Mutant of BoostValue: the sum is not clamped.
BoostValueUnclamped(activation, amount) == activation + amount

\* activation = min(1.0, activation + amount)
BoostValue(activation, amount) == Min(Scale, activation + amount)

\* activation * (1 - dailyRate)^daysSinceAccessed, never below 0; one
\* factor (1 - dailyRate) per day, rounded down to the thousandth.
RECURSIVE DecayValue(_, _, _)
DecayValue(activation, rate, days) ==
    IF days <= 0 THEN Max(0, activation)
    ELSE DecayValue((activation * (Scale - rate)) \div Scale, rate, days - 1)

\* A node enters the graph with activation 0.5 and access_count 0.
ActCreateNode ==
    /\ \E id \in ActNodeIds \ DOMAIN anodes :
          /\ anodes' = [n \in DOMAIN anodes \cup {id} |->
                           IF n = id
                           THEN [activation |-> DefaultActivation,
                                 access_count |-> 0,
                                 last_accessed |-> anow,
                                 last_decayed_at |-> anow]
                           ELSE anodes[n]]
          /\ alast' = [op |-> "create", ids |-> {id}]
    /\ UNCHANGED anow
    /\ UNCHANGED <<chunkVars, llmVars, polVars, wsVars, kernelVars, docVars, auxVars>>

\* boost(ids, amount): one batched write for all ids.
Boost ==
    /\ \E ids \in (SUBSET DOMAIN anodes) \ {{}}, amount \in BoostAmounts :
          /\ \A id \in ids : anodes[id].access_count < MaxAccess
          /\ anodes' = [n \in DOMAIN anodes |->
                           IF n \in ids
                           THEN [activation |->
                                     BoostValue(anodes[n].activation, amount),
                                 access_count |-> anodes[n].access_count + 1,
                                 last_accessed |-> anow,
                                 last_decayed_at |-> anow]
                           ELSE anodes[n]]
          /\ alast' = [op |-> "boost", ids |-> ids, amount |-> amount,
                       before |-> [n \in ids |-> anodes[n].activation]]
    /\ UNCHANGED anow
    /\ UNCHANGED <<chunkVars, llmVars, polVars, wsVars, kernelVars, docVars, auxVars>>

\* decay(): every node last accessed longer ago than the protection window
\* decays by its days since access; a node already decayed at this tick is
\* left alone (last_decayed_at).
Decay ==
    /\ \E rate \in DecayRates :
          LET due == {n \in DOMAIN anodes :
                         /\ anow - anodes[n].last_accessed > ProtectionWindow
                         /\ anodes[n].last_decayed_at < anow}
          IN  /\ anodes' = [n \in DOMAIN anodes |->
                               IF n \in due
                               THEN [anodes[n] EXCEPT
                                       !.activation =
                                           DecayValue(anodes[n].activation,
                                               rate,
                                               anow - anodes[n].last_accessed),
                                       !.last_decayed_at = anow]
                               ELSE anodes[n]]
              /\ alast' = [op |-> "decay", ids |-> due, rate |-> rate]
    /\ UNCHANGED anow
    /\ UNCHANGED <<chunkVars, llmVars, polVars, wsVars, kernelVars, docVars, auxVars>>

\* A day passes.
ActTick ==
    /\ anow < MaxDays
    /\ anow' = anow + 1
    /\ alast' = [op |-> "tick", ids |-> {}]
    /\ UNCHANGED anodes
    /\ UNCHANGED <<chunkVars, llmVars, polVars, wsVars, kernelVars, docVars, auxVars>>

ActInit ==
    /\ anodes = <<>>
    /\ anow = 0
    /\ alast = [op |-> "none", ids |-> {}]

NextAct ==
    \/ ActCreateNode
    \/ Boost
    \/ Decay
    \/ ActTick

\* C3: for every node 0 <= activation <= 1 in every reachable state, and a
\* boost that would exceed 1.0 leaves the activation at exactly 1.0.
ActivationInRange ==
    /\ \A n \in DOMAIN anodes :
          /\ 0 <= anodes[n].activation
          /\ anodes[n].activation <= Scale
    /\ alast.op = "boost" =>
          \A n \in alast.ids :
              alast.before[n] + alast.amount > Scale =>
                  anodes[n].activation = Scale

\* A node that was boosted past 1.0 (and clamped) after having decayed.
ActivationWitness ==
    /\ alast.op = "boost"
    /\ \E n \in alast.ids :
          /\ alast.before[n] + alast.amount > Scale
          /\ alast.before[n] < DefaultActivation
          /\ alast.before[n] > 0
          /\ anodes[n].activation = Scale

(***************************************************************************)
(* Namespace & Identity: workspace, invitations, share tokens (spec 4.3)   *)
(***************************************************************************)

\* Bounds: invitations created, uses a share token is issued with.
MaxInvites == 1
MaxUses == 2

Users == {"alice", "bob", "carol"}
Roles == {"admin", "subuser"}
InviteIds == 1..MaxInvites
TokenIds == {1}
TerminalStatuses == {"accepted", "declined", "revoked"}

\* isMember(user, ws) -> none | subuser | admin
IsMember(user) ==
    IF <<"has_admin", user>> \in wedges THEN "admin"
    ELSE IF <<"has_member", user>> \in wedges THEN "subuser"
    ELSE "none"

\* The membership edge an accepted invitation or a redeemed token adds.
EdgeFor(role, user) ==
    IF role = "admin" THEN <<"has_admin", user>> ELSE <<"has_member", user>>

Outcome(op, user, id, result) ==
    [op |-> op, user |-> user, id |-> id, result |-> result]

otherWsVars == <<chunkVars, llmVars, polVars, actVars, kernelVars, docVars, auxVars>>

\* createWorkspace(owner, name): the owner gets the has_admin edge.
CreateWorkspace ==
    /\ ~wcreated
    /\ \E owner \in Users :
          /\ wedges' = {<<"has_admin", owner>>}
          /\ wlast' = Outcome("createWorkspace", owner, 0, "ok")
    /\ wcreated' = TRUE
    /\ UNCHANGED <<invitations, tokens, rpc>>
    /\ UNCHANGED otherWsVars

\* Mutant of MayAdminister: any member may invite and issue.
MayAdministerAnyMember(user) == IsMember(user) # "none"

\* invite and issueShareToken enforce that the caller is an admin.
MayAdminister(user) == IsMember(user) = "admin"

\* invite(inviter, ws, invitee, role)
Invite ==
    /\ wcreated
    /\ \E inviter \in Users, invitee \in Users, role \in Roles :
          IF ~MayAdminister(inviter)
          THEN /\ wlast' = Outcome("invite", inviter, 0, "Forbidden")
               /\ UNCHANGED invitations
          ELSE LET id == Cardinality(DOMAIN invitations) + 1
               IN  /\ id <= MaxInvites
                   /\ invitations' =
                          [i \in DOMAIN invitations \cup {id} |->
                              IF i = id
                              THEN [inviterUser |-> inviter,
                                    inviteeUser |-> invitee,
                                    role |-> role, status |-> "pending"]
                              ELSE invitations[i]]
                   /\ wlast' = Outcome("invite", inviter, id, "ok")
    /\ UNCHANGED <<wcreated, wedges, tokens, rpc>>
    /\ UNCHANGED otherWsVars

\* Mutant of InvitationOpen: an invitation can be answered in any state.
InvitationOpenAlways(inv) == TRUE

\* Only a pending invitation can change state.
InvitationOpen(inv) == inv.status = "pending"

\* Mutant of IsInvitee: the invitee is not compared with the caller.
IsInviteeAnyone(user, inv) == TRUE

\* accept and decline are for the invitee alone.
IsInvitee(user, inv) == user = inv.inviteeUser

\* accept(user, inviteId): transitions the invitation and adds the edge.
Accept ==
    /\ \E user \in Users, id \in DOMAIN invitations :
          LET inv == invitations[id]
          IN  IF ~IsInvitee(user, inv)
              THEN /\ wlast' = Outcome("accept", user, id, "InvalidInput")
                   /\ UNCHANGED <<invitations, wedges>>
              ELSE IF ~InvitationOpen(inv)
              THEN /\ wlast' = Outcome("accept", user, id, "Conflict")
                   /\ UNCHANGED <<invitations, wedges>>
              ELSE /\ invitations' =
                          [invitations EXCEPT ![id].status = "accepted"]
                   /\ wedges' = wedges \cup {EdgeFor(inv.role, user)}
                   /\ wlast' = Outcome("accept", user, id, "ok")
    /\ UNCHANGED <<wcreated, tokens, rpc>>
    /\ UNCHANGED otherWsVars

\* decline(user, inviteId)
Decline ==
    /\ \E user \in Users, id \in DOMAIN invitations :
          LET inv == invitations[id]
          IN  IF ~IsInvitee(user, inv)
              THEN /\ wlast' = Outcome("decline", user, id, "InvalidInput")
                   /\ UNCHANGED invitations
              ELSE IF ~InvitationOpen(inv)
              THEN /\ wlast' = Outcome("decline", user, id, "Conflict")
                   /\ UNCHANGED invitations
              ELSE /\ invitations' =
                          [invitations EXCEPT ![id].status = "declined"]
                   /\ wlast' = Outcome("decline", user, id, "ok")
    /\ UNCHANGED <<wcreated, wedges, tokens, rpc>>
    /\ UNCHANGED otherWsVars

\* revoke(admin, inviteId)
RevokeInvitation ==
    /\ \E user \in Users, id \in DOMAIN invitations :
          LET inv == invitations[id]
          IN  IF ~MayAdminister(user)
              THEN /\ wlast' = Outcome("revoke", user, id, "Forbidden")
                   /\ UNCHANGED invitations
              ELSE IF ~InvitationOpen(inv)
              THEN /\ wlast' = Outcome("revoke", user, id, "Conflict")
                   /\ UNCHANGED invitations
              ELSE /\ invitations' =
                          [invitations EXCEPT ![id].status = "revoked"]
                   /\ wlast' = Outcome("revoke", user, id, "ok")
    /\ UNCHANGED <<wcreated, wedges, tokens, rpc>>
    /\ UNCHANGED otherWsVars

\* DELETE /workspaces/{ws}/members/{user}, by an admin
RemoveMember ==
    /\ wcreated
    /\ \E admin \in Users, user \in Users :
          IF ~MayAdminister(admin)
          THEN /\ wlast' = Outcome("removeMember", admin, 0, "Forbidden")
               /\ UNCHANGED wedges
          ELSE /\ wedges' = wedges \ {<<"has_admin", user>>,
                                      <<"has_member", user>>}
               /\ wlast' = Outcome("removeMember", admin, 0, "ok")
    /\ UNCHANGED <<wcreated, invitations, tokens, rpc>>
    /\ UNCHANGED otherWsVars

\* issueShareToken(admin, ws, {maxUses, ttl})
IssueShareToken ==
    /\ wcreated
    /\ \E admin \in Users, role \in Roles, maxUses \in 1..MaxUses :
          IF ~MayAdminister(admin)
          THEN /\ wlast' = Outcome("issueShareToken", admin, 0, "Forbidden")
               /\ UNCHANGED tokens
          ELSE \E t \in TokenIds \ DOMAIN tokens :
                   /\ tokens' =
                          [k \in DOMAIN tokens \cup {t} |->
                              IF k = t
                              THEN [role |-> role, maxUses |-> maxUses,
                                    usesRemaining |-> maxUses,
                                    revoked |-> FALSE, expired |-> FALSE,
                                    redeemed |-> 0]
                              ELSE tokens[k]]
                   /\ wlast' = Outcome("issueShareToken", admin, t, "ok")
    /\ UNCHANGED <<wcreated, wedges, invitations, rpc>>
    /\ UNCHANGED otherWsVars

\* DELETE /workspaces/{ws}/share-link/{token}, by an admin
RevokeShareToken ==
    /\ \E admin \in Users, t \in DOMAIN tokens :
          IF ~MayAdminister(admin)
          THEN /\ wlast' = Outcome("revokeShareToken", admin, t, "Forbidden")
               /\ UNCHANGED tokens
          ELSE /\ tokens' = [tokens EXCEPT ![t].revoked = TRUE]
               /\ wlast' = Outcome("revokeShareToken", admin, t, "ok")
    /\ UNCHANGED <<wcreated, wedges, invitations, rpc>>
    /\ UNCHANGED otherWsVars

\* The clock passes a token's expiresAt.
ExpireShareToken ==
    /\ \E t \in DOMAIN tokens :
          /\ ~tokens[t].expired
          /\ tokens' = [tokens EXCEPT ![t].expired = TRUE]
    /\ wlast' = Outcome("expire", "clock", 0, "ok")
    /\ UNCHANGED <<wcreated, wedges, invitations, rpc>>
    /\ UNCHANGED otherWsVars

\* Mutant of Redeemable: the remaining uses are not looked at.
RedeemableIgnoringUses(tok) == ~tok.revoked /\ ~tok.expired

\* "reject if zero, revoked, or expired"
Redeemable(tok) == tok.usesRemaining > 0 /\ ~tok.revoked /\ ~tok.expired

\* redeemShareToken(user, token), the store call: the test and the decrement
\* of usesRemaining are one atomic step.
RedeemDecrement ==
    /\ \E user \in Users, t \in DOMAIN tokens :
          /\ rpc[user] = 0
          /\ IF ~Redeemable(tokens[t])
             THEN /\ wlast' = Outcome("redeemShareToken", user, t, "InvalidInput")
                  /\ UNCHANGED <<tokens, rpc>>
             ELSE /\ tokens' = [tokens EXCEPT
                                   ![t].usesRemaining = @ - 1,
                                   ![t].redeemed = @ + 1]
                  /\ rpc' = [rpc EXCEPT ![user] = t]
                  /\ wlast' = Outcome("redeemShareToken", user, t, "ok")
    /\ UNCHANGED <<wcreated, wedges, invitations>>
    /\ UNCHANGED otherWsVars

\* redeemShareToken(user, token), the second store call: the membership
\* edge of the token's role is added.
RedeemJoin ==
    /\ \E user \in Users :
          /\ rpc[user] # 0
          /\ wedges' = wedges \cup {EdgeFor(tokens[rpc[user]].role, user)}
          /\ rpc' = [rpc EXCEPT ![user] = 0]
          /\ wlast' = Outcome("join", user, rpc[user], "joined")
    /\ UNCHANGED <<wcreated, invitations, tokens>>
    /\ UNCHANGED otherWsVars

WsInit ==
    /\ wcreated = FALSE
    /\ wedges = {}
    /\ invitations = <<>>
    /\ tokens = <<>>
    /\ rpc = [u \in Users |-> 0]
    /\ wlast = Outcome("none", "none", 0, "none")

NextInvite ==
    \/ CreateWorkspace
    \/ Invite
    \/ Accept
    \/ Decline
    \/ RevokeInvitation
    \/ RemoveMember

NextAdmin ==
    \/ CreateWorkspace
    \/ Invite
    \/ Accept
    \/ RemoveMember
    \/ IssueShareToken

NextToken ==
    \/ CreateWorkspace
    \/ IssueShareToken
    \/ RevokeShareToken
    \/ ExpireShareToken
    \/ RedeemDecrement
    \/ RedeemJoin

\* C6: for a token issued with maxUses = N, under any interleaving of
\* redemptions at most N succeed and usesRemaining never becomes negative.
ShareTokenUsesBounded ==
    \A t \in DOMAIN tokens :
        /\ tokens[t].usesRemaining >= 0
        /\ tokens[t].redeemed <= tokens[t].maxUses

\* A token issued with two uses is exhausted while two users that took a use
\* have yet to join, and a third user's redemption was rejected.
ShareTokenWitness ==
    /\ \E t \in DOMAIN tokens :
          /\ tokens[t].maxUses = 2
          /\ tokens[t].usesRemaining = 0
          /\ tokens[t].redeemed = 2
          /\ Cardinality({u \in Users : rpc[u] = t}) = 2
    /\ wlast.op = "redeemShareToken"
    /\ wlast.result = "InvalidInput"
    /\ rpc[wlast.user] = 0

\* C7: every invitation is created pending, and once it is accepted,
\* declined or revoked no operation changes its status.
InvitationTerminal ==
    [][ /\ \A i \in DOMAIN invitations' \ DOMAIN invitations :
              invitations'[i].status = "pending"
        /\ \A i \in DOMAIN invitations :
              invitations[i].status \in TerminalStatuses =>
                  /\ i \in DOMAIN invitations'
                  /\ invitations'[i].status = invitations[i].status ]_vars

\* An accept, decline or revoke by the rightful caller was refused because
\* the invitation had already reached a terminal state.
InvitationTerminalWitness ==
    /\ wlast.op \in {"accept", "decline", "revoke"}
    /\ wlast.result = "Conflict"
    /\ invitations[wlast.id].status \in TerminalStatuses

\* The step is an accept by a user who is not the invitee.
AcceptByOther ==
    /\ wlast' # wlast
    /\ wlast'.op = "accept"
    /\ wlast'.user # invitations[wlast'.id].inviteeUser

\* C8: accept by any user other than the invitee fails, leaves the
\* invitation as it was and adds no membership edge.
AcceptByNonInviteeFails ==
    [][ AcceptByOther =>
            /\ wlast'.result # "ok"
            /\ invitations' = invitations
            /\ wedges' = wedges ]_vars

\* A user who is not the invitee was refused while the invitation is pending
\* and the user holds no membership.
AcceptByNonInviteeWitness ==
    /\ wlast.op = "accept"
    /\ wlast.result = "InvalidInput"
    /\ wlast.user # invitations[wlast.id].inviteeUser
    /\ invitations[wlast.id].status = "pending"
    /\ IsMember(wlast.user) = "none"

\* The step is an invite or an issueShareToken call.
AdminCall ==
    /\ wlast' # wlast
    /\ wlast'.op \in {"invite", "issueShareToken"}

\* C9: invite and issueShareToken succeed only for an admin of the
\* workspace; a subuser or a non-member is rejected as Forbidden and no
\* invitation and no share token is created.
OnlyAdminInvitesAndIssues ==
    [][ AdminCall =>
            IF IsMember(wlast'.user) = "admin"
            THEN wlast'.result = "ok"
            ELSE /\ wlast'.result = "Forbidden"
                 /\ invitations' = invitations
                 /\ tokens' = tokens ]_vars

\* A subuser was refused an invite or a share token while an invitation
\* created by an admin exists.
OnlyAdminWitness ==
    /\ wlast.op \in {"invite", "issueShareToken"}
    /\ wlast.result = "Forbidden"
    /\ IsMember(wlast.user) = "subuser"
    /\ DOMAIN invitations # {}

(***************************************************************************)
(* Graph Store, Vector Index, Curator, Ingestion Coordinator               *)
(* (spec sections 3, 4.1, 4.2, 4.8, 4.9 and 5)                             *)
(***************************************************************************)

Namespaces == {"user_alice", "user_bob"}
Kinds == {"Entity", "Fact"}
JobIds == {1, 2}

\* Names are sequences of characters: "Ob", "ob." and "Pa".
RawNames == {<<"O", "b">>, <<"o", "b", ".">>, <<"P", "a">>}
TerminalPunctuation == {".", "!", "?"}

CaseFold(c) ==
    CASE c = "O" -> "o"
      [] c = "P" -> "p"
      [] OTHER -> c

RECURSIVE CollapseWhitespace(_)
CollapseWhitespace(name) ==
    IF Len(name) < 2 THEN name
    ELSE IF name[1] = " " /\ name[2] = " "
    THEN CollapseWhitespace(Tail(name))
    ELSE <<name[1]>> \o CollapseWhitespace(Tail(name))

RECURSIVE StripTerminal(_)
StripTerminal(name) ==
    IF name # <<>> /\ name[Len(name)] \in TerminalPunctuation
    THEN StripTerminal(SubSeq(name, 1, Len(name) - 1))
    ELSE name

\* Curator step 1: case-fold, collapse whitespace, strip terminal punctuation.
Canonicalize(name) ==
    StripTerminal(CollapseWhitespace([i \in 1..Len(name) |-> CaseFold(name[i])]))

\* The embedder: a dense vector per text; the two spellings of one referent
\* lie close together.
Embed(name) ==
    CASE name = <<"O", "b">> -> <<10, 1>>
      [] name = <<"o", "b", ".">> -> <<10, 2>>
      [] OTHER -> <<1, 10>>

Dot(u, v) == u[1] * v[1] + u[2] * v[2]

\* Cosine similarity, kept as the square of its value in ten-thousandths
\* (0 when the cosine is not positive).
Similarity(u, v) ==
    IF Dot(u, v) <= 0 THEN 0
    ELSE (Dot(u, v) * Dot(u, v) * 10000) \div (Dot(u, u) * Dot(v, v))

\* Minimum scores in hundredths: 0.1 for recall, 0.3 for dedup gating,
\* 0.92 for merge; the Curator takes the top 5 candidates.
RecallMinScore == 10
DedupMinScore == 30
MergeMinScore == 92
CandidateTopK == 5

AtLeast(sim, minScore) == sim >= minScore * minScore

NodeId(namespace, name, kind) == <<namespace, name, kind>>
NodeNamespace(id) == id[1]
NodeName(id) == id[2]
NodeKind(id) == id[3]

NodeIds == {NodeId(ns, n, k) : ns \in Namespaces, n \in RawNames, k \in Kinds}

\* upsert(node) -> id: (namespace, name, kind) is the uniqueness key; a
\* duplicate insert returns the existing id and leaves the store as it is.
Upsert(nodes, id) ==
    IF id \in DOMAIN nodes THEN nodes
    ELSE [n \in DOMAIN nodes \cup {id} |->
             IF n = id
             THEN [activation |-> DefaultActivation,
                   created_at |-> Cardinality(DOMAIN nodes) + 1]
             ELSE nodes[n]]

\* Mutant of InNamespace: reads carry no namespace filter.
InAnyNamespace(id, namespace) == TRUE

\* "All reads/writes carry a namespace filter"
InNamespace(id, namespace) == NodeNamespace(id) = namespace

\* search(namespace, vector, k, minScore): the k best ids of the namespace's
\* index whose score reaches minScore.
Search(index, namespace, vector, k, minScore) ==
    LET hits == {id \in index :
                    /\ InNamespace(id, namespace)
                    /\ AtLeast(Similarity(Embed(NodeName(id)), vector), minScore)}
        Score(id) == Similarity(Embed(NodeName(id)), vector)
    IN  IF Cardinality(hits) <= k THEN hits
        ELSE CHOOSE best \in SUBSET hits :
                 /\ Cardinality(best) = k
                 /\ \A x \in best, y \in hits \ best : Score(x) >= Score(y)

\* One name is a prefix, suffix or inner part of the other.
IsSubstring(a, b) ==
    \E i \in 0..(Len(b) - Len(a)) : SubSeq(b, i + 1, i + Len(a)) = a

\* Curator step 3, the name test: the normalized names match or one is a
\* clear substring of the other.
NamesMatch(a, b) ==
    LET ca == Canonicalize(a)
        cb == Canonicalize(b)
    IN  ca = cb \/ IsSubstring(ca, cb) \/ IsSubstring(cb, ca)

\* Curator steps 2 and 3: the candidates the draft merges into.
MergeCandidates(index, namespace, draft) ==
    {c \in Search(index, namespace, Embed(draft.name), CandidateTopK,
                  DedupMinScore) :
        /\ AtLeast(Similarity(Embed(NodeName(c)), Embed(draft.name)),
                   MergeMinScore)
        /\ NodeKind(c) = draft.kind
        /\ NamesMatch(NodeName(c), draft.name)}

\* The Curator on one draft: the id the draft ends up in.  A draft with a
\* merge candidate merges into it; any other draft, and any draft whose
\* curation failed, becomes a new node.
Curate(index, namespace, draft, failed) ==
    LET cands == MergeCandidates(index, namespace, draft)
    IN  IF failed \/ cands = {}
        THEN NodeId(namespace, draft.name, draft.kind)
        ELSE CHOOSE c \in cands : TRUE

Drafts == [name : RawNames, kind : Kinds]
NoJob == [state |-> "none"]
JobLive(j) == jobs[j].state \notin {"none", "DONE", "FAILED"}

otherIngVars ==
    <<chunkVars, llmVars, polVars, actVars, wsVars, conVars, docVars, auxVars>>

\* A ConversationTurn job enters the queue.
SubmitJob ==
    /\ \E j \in JobIds, ns \in Namespaces, draft \in Drafts :
          /\ jobs[j].state = "none"
          /\ jobs' = [jobs EXCEPT ![j] =
                         [state |-> "NEW", namespace |-> ns, draft |-> draft,
                          touched |-> {}]]
    /\ UNCHANGED <<kgVars, nslock>>
    /\ UNCHANGED otherIngVars

\* NEW -> CHUNKED
ChunkJob ==
    /\ \E j \in JobIds :
          /\ jobs[j].state = "NEW"
          /\ jobs' = [jobs EXCEPT ![j].state = "CHUNKED"]
    /\ UNCHANGED <<kgVars, nslock>>
    /\ UNCHANGED otherIngVars

\* CHUNKED -> EXTRACTED
ExtractJob ==
    /\ \E j \in JobIds :
          /\ jobs[j].state = "CHUNKED"
          /\ jobs' = [jobs EXCEPT ![j].state = "EXTRACTED"]
    /\ UNCHANGED <<kgVars, nslock>>
    /\ UNCHANGED otherIngVars

\* Mutant of LockFree: the namespace mutex is not taken.
LockFreeAlways(namespace) == TRUE

LockFree(namespace) == nslock[namespace] = 0

\* EXTRACTED -> CURATED under the namespace mutex: the Curator runs on the
\* draft; a failure of the Curator falls through to "create new node".
CurateJob ==
    /\ \E j \in JobIds, failed \in BOOLEAN :
          /\ jobs[j].state = "EXTRACTED"
          /\ LockFree(jobs[j].namespace)
          /\ LET id == Curate(vindex, jobs[j].namespace, jobs[j].draft, failed)
             IN  /\ gnodes' = Upsert(gnodes, id)
                 /\ jobs' = [jobs EXCEPT ![j].state = "CURATED",
                                         ![j].touched = {id}]
          /\ nslock' = [nslock EXCEPT ![jobs[j].namespace] = j]
    /\ UNCHANGED <<gedges, vindex>>
    /\ UNCHANGED otherIngVars

\* The mutex of the job's namespace, released if the job holds it.
Released(j) ==
    [ns \in Namespaces |-> IF nslock[ns] = j THEN 0 ELSE nslock[ns]]

\* CURATED -> INDEXED: the Vector Index takes the new and updated nodes;
\* the mutex is released.
IndexJob ==
    /\ \E j \in JobIds :
          /\ jobs[j].state = "CURATED"
          /\ vindex' = vindex \cup jobs[j].touched
          /\ jobs' = [jobs EXCEPT ![j].state = "INDEXED"]
          /\ nslock' = Released(j)
    /\ UNCHANGED <<gnodes, gedges>>
    /\ UNCHANGED otherIngVars

\* INDEXED -> DONE
FinishJob ==
    /\ \E j \in JobIds :
          /\ jobs[j].state = "INDEXED"
          /\ jobs' = [jobs EXCEPT ![j].state = "DONE"]
    /\ UNCHANGED <<kgVars, nslock>>
    /\ UNCHANGED otherIngVars

\* FAILED at any transition; writes the store accepted are not rolled back.
FailJob ==
    /\ \E j \in JobIds :
          /\ JobLive(j)
          /\ jobs' = [jobs EXCEPT ![j].state = "FAILED"]
          /\ nslock' = Released(j)
    /\ UNCHANGED kgVars
    /\ UNCHANGED otherIngVars

KernelInit ==
    /\ gnodes = <<>>
    /\ gedges = {}
    /\ vindex = {}
    /\ jobs = [j \in JobIds |-> NoJob]
    /\ nslock = [ns \in Namespaces |-> 0]
    /\ clast = [op |-> "none"]
    /\ cpending = <<>>
    /\ cconsults = 0

NextIngest ==
    \/ SubmitJob
    \/ ChunkJob
    \/ ExtractJob
    \/ CurateJob
    \/ IndexJob
    \/ FinishJob
    \/ FailJob

\* Two distinct nodes of one namespace for one referent: same kind, equal
\* normalized names, cosine similarity of at least 0.92.
Duplicates(a, b) ==
    /\ a # b
    /\ NodeNamespace(a) = NodeNamespace(b)
    /\ NodeKind(a) = NodeKind(b)
    /\ Canonicalize(NodeName(a)) = Canonicalize(NodeName(b))
    /\ AtLeast(Similarity(Embed(NodeName(a)), Embed(NodeName(b))),
               MergeMinScore)

\* Every submitted job has reached DONE.
JobsCompleted ==
    /\ \E j \in JobIds : jobs[j].state = "DONE"
    /\ \A j \in JobIds : jobs[j].state \in {"none", "DONE"}

\* C4: once the ingestion jobs have completed, no two nodes of one namespace
\* have the same kind, matching normalized names and cosine similarity of at
\* least 0.92.
DedupAfterIngestion ==
    JobsCompleted => \A a, b \in DOMAIN gnodes : ~Duplicates(a, b)

(***************************************************************************)
(* Consultation Engine (spec section 4.10)                                 *)
(***************************************************************************)

\* Bound on the consult calls of a run.
MaxConsults == 2

\* Limits of the seed retrievals and of the context (defaults 30, 30, 20 and
\* 10), scaled to stores of two nodes per namespace.
FullTextLimit == 1
RecencyLimit == 1
VectorLimit == 1
TopK == 1
SpreadDepth == 2
Gamma == 500                   \* 0.5, in thousandths
DefaultWeight == 500           \* an absent weight facet means 0.5
Alpha == 7                     \* 0.7, in tenths

QueryTerms == {<<"O", "b">>, <<"P", "a">>}
TurnDrafts ==
    {[name |-> <<"O", "b">>, kind |-> "Entity", relation |-> <<>>],
     [name |-> <<"O", "b">>, kind |-> "Entity", relation |-> <<"P", "a">>]}

\* The k members of a set with the highest score.
Best(set, k, Score(_)) ==
    IF Cardinality(set) <= k THEN set
    ELSE CHOOSE best \in SUBSET set :
             /\ Cardinality(best) = k
             /\ \A x \in best, y \in set \ best : Score(x) >= Score(y)

\* Full-text match on name restricted to the namespace, by activation.
FullText(nodes, namespace, term, limit) ==
    LET hits == {id \in DOMAIN nodes :
                    /\ InNamespace(id, namespace)
                    /\ IsSubstring(Canonicalize(term),
                                   Canonicalize(NodeName(id)))}
        ByActivation(id) == nodes[id].activation
    IN  Best(hits, limit, ByActivation)

\* Recency match, by created_at.
Recent(nodes, namespace, limit) ==
    LET hits == {id \in DOMAIN nodes : InNamespace(id, namespace)}
        ByCreation(id) == nodes[id].created_at
    IN  Best(hits, limit, ByCreation)

\* Steps 2 and 3: the seed set.
Seeds(nodes, index, namespace, term) ==
    FullText(nodes, namespace, term, FullTextLimit)
        \cup Recent(nodes, namespace, RecencyLimit)
        \cup Search(index, namespace, Embed(term), VectorLimit, RecallMinScore)

RECURSIVE SumOf(_, _)
SumOf(set, value) ==
    IF set = {} THEN 0
    ELSE LET x == CHOOSE y \in set : TRUE
         IN  value[x] + SumOf(set \ {x}, value)

\* Step 4: activation spread from the frontier to its unvisited
\* out-neighbors, a_s * weight * gamma added up and capped at 1.0; act maps
\* the visited ids to their activation.
RECURSIVE Spread(_, _, _, _)
Spread(act, frontier, edges, depth) ==
    LET next == {e[2] : e \in {e \in edges : e[1] \in frontier}}
                    \ DOMAIN act
        Share(n) ==
            LET from == [s \in frontier |->
                            (act[s] * DefaultWeight * Gamma) \div (Scale * Scale)]
            IN  Min(Scale, SumOf({s \in frontier : <<s, n>> \in edges}, from))
    IN  IF depth = 0 \/ next = {} THEN act
        ELSE Spread([n \in DOMAIN act \cup next |->
                        IF n \in next THEN Share(n) ELSE act[n]],
                    next, edges, depth - 1)

\* Cosine similarity in hundredths.
Cosine(u, v) ==
    LET sim == Similarity(u, v)
    IN  CHOOSE k \in 0..100 : k * k <= sim /\ (k + 1) * (k + 1) > sim

\* Steps 2 to 7: the ids of the context of consult(principal, namespace,
\* query) on a store.
Retrieve(nodes, edges, index, pols, principal, namespace, term) ==
    LET seeds == Seeds(nodes, index, namespace, term)
        act == Spread([s \in seeds |-> nodes[s].activation], seeds, edges,
                      SpreadDepth)
        allowed == {id \in DOMAIN act :
                       Evaluate(pols, principal, "READ",
                                <<"ns", NodeNamespace(id)>>).decision = "allow"}
        Rank(id) == Alpha * act[id]
                    + (10 - Alpha) * 10 * Cosine(Embed(NodeName(id)), Embed(term))
    IN  Best(allowed, TopK, Rank)

otherConVars == <<chunkVars, llmVars, actVars, wsVars, ingVars, docVars, auxVars>>

\* A ConversationTurn job run from NEW to DONE: the draft is curated, its
\* relation becomes an edge to the target node, the index takes both.
IngestTurn ==
    /\ \E ns \in Namespaces, draft \in TurnDrafts :
          LET id == Curate(vindex, ns, draft, FALSE)
              withNode == Upsert(gnodes, id)
              target == IF draft.relation = <<>> THEN id
                        ELSE Curate(vindex, ns,
                                    [name |-> draft.relation, kind |-> "Entity"],
                                    FALSE)
          IN  /\ gnodes' = Upsert(withNode, target)
              /\ gedges' = IF draft.relation = <<>> THEN gedges
                           ELSE gedges \cup {<<id, target>>}
              /\ vindex' = vindex \cup {id, target}
    /\ UNCHANGED <<polVars, conVars>>
    /\ UNCHANGED otherConVars

\* Policies for every user: one opens alice's namespace, one closes all.
SharePolicies ==
    {[effect |-> "ALLOW", subject |-> <<"user">>,
      resource |-> <<"ns", "user_alice">>],
     [effect |-> "DENY", subject |-> <<"user">>, resource |-> Wildcard]}

SharePolicy == WritePolicy({1}, SharePolicies)

\* consult(principal, namespace, query): the response; the boost of the
\* retrieved ids is left to run asynchronously.
Consult ==
    /\ cconsults < MaxConsults
    /\ \E principal \in Principals, ns \in Namespaces, term \in QueryTerms :
          LET retrieved == Retrieve(gnodes, gedges, vindex, policies,
                                    principal, ns, term)
          IN  /\ clast' = [op |-> "consult", principal |-> principal,
                           namespace |-> ns, term |-> term,
                           retrievedIds |-> retrieved]
              /\ cpending' = Append(cpending, retrieved)
    /\ cconsults' = cconsults + 1
    /\ UNCHANGED <<polVars, kgVars>>
    /\ UNCHANGED otherConVars

\* Step 8, the side effect: Activation Engine boost of the top-K ids.
ConsultBoost ==
    /\ cpending # <<>>
    /\ gnodes' = [id \in DOMAIN gnodes |->
                     IF id \in Head(cpending)
                     THEN [gnodes[id] EXCEPT
                              !.activation = BoostValue(@, DefaultBoost)]
                     ELSE gnodes[id]]
    /\ cpending' = Tail(cpending)
    /\ UNCHANGED <<polVars, gedges, vindex, clast, cconsults>>
    /\ UNCHANGED otherConVars

NextConsult ==
    \/ IngestTurn
    \/ SharePolicy
    \/ DeletePolicy
    \/ Consult
    \/ ConsultBoost

\* An ALLOW policy for the principal matches the namespace.
AllowedNamespace(principal, namespace) ==
    \E i \in 1..Len(policies) :
        /\ policies[i].effect = "ALLOW"
        /\ PolicyMatches(policies[i], principal, <<"ns", namespace>>)

\* The namespaces whose nodes the principal may see: its own and those an
\* ALLOW policy opens.
Visible(principal) ==
    {ns \in Namespaces :
        ns = OwnNamespace(principal) \/ AllowedNamespace(principal, ns)}

\* A store's nodes, edges or index without what lies outside the namespaces.
NodesWithin(nodes, spaces) ==
    [id \in {n \in DOMAIN nodes : NodeNamespace(n) \in spaces} |-> nodes[id]]
EdgesWithin(edges, spaces) ==
    {e \in edges : NodeNamespace(e[1]) \in spaces
                   /\ NodeNamespace(e[2]) \in spaces}
IndexWithin(index, spaces) == {id \in index : NodeNamespace(id) \in spaces}

\* The step is the response of a consult call.
ConsultStep == cconsults' = cconsults + 1

\* C1: a consultation by user B returns no node of another user's namespace
\* unless an ALLOW policy for B matches that namespace, and a consultation by
\* B in B's own namespace returns what it would return were the namespaces
\* closed to B empty.
NamespaceIsolation ==
    [][ ConsultStep =>
            LET B == clast'.principal
            IN  /\ \A id \in clast'.retrievedIds :
                      NodeNamespace(id) \in Visible(B)
                /\ clast'.namespace = OwnNamespace(B) =>
                      clast'.retrievedIds =
                          Retrieve(NodesWithin(gnodes, Visible(B)),
                                   EdgesWithin(gedges, Visible(B)),
                                   IndexWithin(vindex, Visible(B)),
                                   policies, B, clast'.namespace,
                                   clast'.term) ]_vars

\* Bob consulted his own namespace and got his own node while alice's
\* namespace, closed to bob, holds a newer node of the same name.
NamespaceIsolationWitness ==
    /\ clast.op = "consult"
    /\ clast.principal = <<"user", "bob">>
    /\ clast.namespace = "user_bob"
    /\ ~AllowedNamespace(clast.principal, "user_alice")
    /\ clast.retrievedIds = {NodeId("user_bob", clast.term, "Entity")}
    /\ NodeId("user_alice", clast.term, "Entity") \in DOMAIN gnodes
    /\ NodeId("user_bob", clast.term, "Entity") \in DOMAIN gnodes
    /\ gnodes[NodeId("user_alice", clast.term, "Entity")].created_at
           > gnodes[NodeId("user_bob", clast.term, "Entity")].created_at

(***************************************************************************)
(* AI service: DocumentIngester, /ingest-document                          *)
(***************************************************************************)

\* Bound on the number of non-blank chunks the chunker cuts a text into.
MaxDocChunks == 52

\* "chunk.is_cluster_rep = (i % 5 == 0)"
RepresentativeStride == 5
\* "for chunk in cluster_reps[:10]"
LLMCallBudget == 10

\* The text of a call: absent (None), "", whitespace only, or words that the
\* chunker cuts into `pieces` non-blank chunks and in which the rules of
\* tier 1 find `rules` entities.
\* The chunk counts lie around the stride of the representatives and around
\* the number of chunks that uses up the LLM budget.
DocChunkCounts ==
    {1, RepresentativeStride, RepresentativeStride + 1, MaxDocChunks - 1,
     MaxDocChunks}
DocTexts ==
    {[kind |-> k] : k \in {"none", "empty", "blank"}}
    \cup {[kind |-> "words", pieces |-> n, rules |-> r] :
             n \in DocChunkCounts, r \in 0..1}
\* The text of a PDF: short, the vision loop follows the tier-3 loop.
PdfTexts ==
    {text \in DocTexts :
        text.kind = "words" => text.pieces <= RepresentativeStride + 1}

\* Python truth value of request.text
TextGiven(text) == text.kind \notin {"none", "empty"}

\* An ExtractedEntity: name, entity_type and source.  "None" is the name
\* of an entity whose JSON item carried "name": null.
Entity(name, entity_type, source) ==
    [name |-> name, entity_type |-> entity_type, source |-> source]

\* _extract_rules: the regular expressions match nothing in a text without
\* words; a match is an Email entity.
ExtractRules(text) ==
    IF text.kind = "words" /\ text.rules = 1
    THEN <<Entity("Bob@x.io", "Email", "rule")>>
    ELSE <<>>

\* _create_chunks_fast: a page whose text.strip() is empty is skipped, a
\* chunk whose stripped text is empty is dropped, chunk_index counts from 0.
CreateChunks(text) ==
    IF text.kind # "words" THEN <<>>
    ELSE [i \in 1..text.pieces |->
             [chunk_index |-> i - 1, is_cluster_rep |-> FALSE]]

\* "for i, chunk in enumerate(chunks): chunk.is_cluster_rep = (i % 5 == 0)"
MarkRepresentatives(chunks) ==
    [i \in DOMAIN chunks |->
        [chunks[i] EXCEPT
            !.is_cluster_rep = ((i - 1) % RepresentativeStride = 0)]]

IsClusterRep(c) == c.is_cluster_rep

\* "cluster_reps = [c for c in chunks if c.is_cluster_rep]"
ClusterReps(chunks) == SelectSeq(chunks, IsClusterRep)

\* seq[:n]
Take(seq, n) == SubSeq(seq, 1, Min(n, Len(seq)))

\* Mutant of Tier3Chunks: every representative is given to the LLM.
Tier3ChunksUncapped(router, chunks) ==
    IF router /\ ClusterReps(chunks) # <<>> THEN ClusterReps(chunks) ELSE <<>>

\* The chunks the tier-3 loop runs over:
\* "if self.llm_router and cluster_reps: for chunk in cluster_reps[:10]"
Tier3Chunks(router, chunks) ==
    IF router /\ ClusterReps(chunks) # <<>>
    THEN Take(ClusterReps(chunks), LLMCallBudget)
    ELSE <<>>

\* What one _extract_with_llm call does: it raises, or returns the
\* entities of the JSON items that carry a name.
LlmExtractions == {"raise", "nothing", "bob@x.io", "None"}
LlmEntities(llm) ==
    IF llm = "bob@x.io" THEN <<Entity("bob@x.io", "Email", "llm")>>
    ELSE IF llm = "None" THEN <<Entity("None", "Concept", "llm")>>
    ELSE <<>>

\* The images of a PDF; the complexity score of a "complex" one is above 5.
MaxImages == 1
ImageLists == UNION {[1..n -> {"simple", "complex"}] : n \in 0..MaxImages}
\* "for img in images[:50]"
VisionBudget == 50
\* What one _extract_with_vision call does.
VisionExtractions == {"raise", "nothing", "BOB@X.IO"}
VisionEntities(vision) ==
    IF vision = "BOB@X.IO" THEN <<Entity("BOB@X.IO", "Email", "vision")>>
    ELSE <<>>

\* The images the vision loop runs over:
\* "if self.llm_router and images: for img in images[:50]"
VisionImages(router, images) ==
    IF router /\ images # <<>> THEN Take(images, VisionBudget) ELSE <<>>

\* str.lower() on an entity name.
LowerName(name) ==
    IF name \in {"Bob@x.io", "BOB@X.IO"} THEN "bob@x.io" ELSE name

\* "key = (e.name.lower(), e.entity_type)"
EntityKey(e) == <<LowerName(e.name), e.entity_type>>

\* e.name.lower() raises AttributeError when the name is not a string.
DedupeRaises(entities) ==
    \E i \in DOMAIN entities : entities[i].name = "None"

\* Mutant of UniqueEntities: the later occurrence of a key replaces the
\* earlier one.
RECURSIVE UniqueEntitiesLastKept(_)
UniqueEntitiesLastKept(entities) ==
    IF entities = <<>> THEN <<>>
    ELSE LET rest == UniqueEntitiesLastKept(Tail(entities))
         IN  IF \E i \in DOMAIN rest :
                    EntityKey(rest[i]) = EntityKey(Head(entities))
             THEN rest
             ELSE <<Head(entities)>> \o rest

\* "seen = set() ... if key not in seen: seen.add(key);
\* unique_entities.append(e)": the first entity of every key, in order.
RECURSIVE UniqueEntities(_)
UniqueEntities(entities) ==
    IF entities = <<>> THEN <<>>
    ELSE LET front == UniqueEntities(SubSeq(entities, 1, Len(entities) - 1))
             e == entities[Len(entities)]
         IN  IF \E i \in DOMAIN front : EntityKey(front[i]) = EntityKey(e)
             THEN front
             ELSE Append(front, e)

\* The stats of the IngestionResult of _process_document; the text of a
\* call is one page.
Stats(text, chunks, images, entities, llm_calls, vision_calls) ==
    [pages |-> 1,
     chunks |-> Len(chunks),
     cluster_reps |-> Len(ClusterReps(chunks)),
     images |-> Len(images),
     tier1_entities |-> Len(ExtractRules(text)),
     llm_calls |-> llm_calls,
     vision_calls |-> vision_calls,
     total_entities |-> Len(UniqueEntities(entities))]

NoResult == [returned |-> FALSE, raised |-> FALSE]
\* _process_document left by an exception.
RaisedResult == [returned |-> FALSE, raised |-> TRUE]

\* IngestDocumentResponse declares entities, relationships, chunks and stats
\* without a default: a construction that leaves one out raises.
ResponseRequired == {"entities", "relationships", "chunks", "stats"}
\* "IngestDocumentResponse(entities=, relationships=, stats=, summary=)"
ResponseGiven == {"entities", "relationships", "stats", "summary"}

\* DocumentIngester(llm_router=...)
DocConstruct ==
    /\ dpc = "new"
    /\ \E router \in BOOLEAN : drouter' = router
    /\ dpc' = "idle"
    /\ UNCHANGED <<dreq, dchunks, dcalled, dentities, dllm_calls, dvision,
                   dresult, dhttp>>
    /\ UNCHANGED otherDocVars

\* _process_document up to the tier-3 loop: rules, chunks, representatives.
ProcessDocument(via, text, images) ==
    /\ dreq' = [via |-> via, text |-> text, images |-> images]
    /\ dentities' = ExtractRules(text)
    /\ dchunks' = MarkRepresentatives(CreateChunks(text))
    /\ dcalled' = <<>>
    /\ dllm_calls' = 0
    /\ dvision' = [seen |-> 0, calls |-> 0]
    /\ dresult' = NoResult
    /\ dhttp' = NoAnswer
    /\ dpc' = "tier3"

\* DocumentIngester.ingest_text(text), called directly.
IngestText ==
    /\ dpc = "idle"
    /\ \E text \in DocTexts :
          text.kind # "none" /\ ProcessDocument("call", text, <<>>)
    /\ UNCHANGED drouter
    /\ UNCHANGED otherDocVars

\* DocumentIngester.ingest_pdf(path), called directly with PyMuPDF
\* installed, on a PDF of one page of text with its images.
IngestPdf ==
    /\ dpc = "idle"
    /\ \E text \in PdfTexts, images \in ImageLists :
          text.kind # "none" /\ ProcessDocument("pdf", text, images)
    /\ UNCHANGED drouter
    /\ UNCHANGED otherDocVars

\* The three ingestion endpoints of main.py and the fields of an
\* IngestDocumentRequest next to text.
Endpoints == {"/ingest-document", "/ingest-vector-tree", "/ingest"}
ContentKinds == {"none", "empty", "given"}
DocumentTypes == {"text", "pdf"}

\* The branch a handler takes: "text" runs ingest_text, "pdf", "tree" and
\* "decoded" read content_base64, "HTTPException(400)" is the raise of the
\* last else.
Branch(endpoint, text, content_base64, document_type) ==
    IF endpoint = "/ingest-document"
    THEN IF TextGiven(text) THEN "text"
         ELSE IF content_base64 = "given" /\ document_type = "pdf" THEN "pdf"
         ELSE "HTTPException(400)"
    ELSE IF endpoint = "/ingest-vector-tree"
    THEN IF ~(content_base64 = "given" /\ document_type = "pdf")
         THEN "HTTPException(400)"
         ELSE "tree"
    ELSE IF TextGiven(text) THEN "text"
         ELSE IF content_base64 = "given" THEN "decoded"
         ELSE "HTTPException(400)"

\* "except Exception as e: ... raise HTTPException(status_code=500, ...)":
\* the handler of each endpoint catches whatever the try block raised,
\* an HTTPException included.
ExceptException(raised) == [status |-> 500, why |-> "exception"]

\* POST to one of the endpoints with a text or with a request no branch
\* accepts: "if request.text:" runs ingest_text; the last else raises
\* HTTPException(400) inside the try.  Requests that carry a document in
\* content_base64 are read by PyMuPDF and are not part of this model.
IngestDocument ==
    /\ dpc = "idle"
    /\ \E endpoint \in Endpoints, text \in DocTexts,
          content_base64 \in ContentKinds, document_type \in DocumentTypes :
          LET branch == Branch(endpoint, text, content_base64, document_type)
          IN  /\ branch \in {"text", "HTTPException(400)"}
              /\ IF branch = "text"
                 THEN ProcessDocument("endpoint", text, <<>>)
                 ELSE /\ dreq' = [via |-> "endpoint", text |-> text,
                                  endpoint |-> endpoint,
                                  content_base64 |-> content_base64,
                                  document_type |-> document_type]
                      /\ dhttp' = ExceptException(branch)
                      /\ dresult' = NoResult
                      /\ dentities' = <<>>
                      /\ dchunks' = <<>>
                      /\ dcalled' = <<>>
                      /\ dllm_calls' = 0
                      /\ dvision' = [seen |-> 0, calls |-> 0]
                      /\ dpc' = "done"
    /\ UNCHANGED drouter
    /\ UNCHANGED otherDocVars

\* One pass of the tier-3 loop: _extract_with_llm on the next chunk; the
\* entities are added and llm_calls counted unless the call raised.
ExtractWithLlm ==
    /\ dpc = "tier3"
    /\ Len(dcalled) < Len(Tier3Chunks(drouter, dchunks))
    /\ LET chunk == Tier3Chunks(drouter, dchunks)[Len(dcalled) + 1]
       IN  /\ dcalled' = Append(dcalled, chunk.chunk_index)
           /\ \E llm \in LlmExtractions :
                 /\ dentities' = dentities \o LlmEntities(llm)
                 /\ dllm_calls' = IF llm = "raise" THEN dllm_calls
                                  ELSE dllm_calls + 1
    /\ UNCHANGED <<dpc, drouter, dreq, dchunks, dvision, dresult, dhttp>>
    /\ UNCHANGED otherDocVars

\* One pass of the vision loop, after the tier-3 loop: an image whose
\* complexity score is above 5 is given to _extract_with_vision.
ExtractWithVision ==
    /\ dpc = "tier3"
    /\ Len(dcalled) = Len(Tier3Chunks(drouter, dchunks))
    /\ dvision.seen < Len(VisionImages(drouter, dreq.images))
    /\ LET img == VisionImages(drouter, dreq.images)[dvision.seen + 1]
       IN  IF img = "complex"
           THEN \E vision \in VisionExtractions :
                   /\ dentities' = dentities \o VisionEntities(vision)
                   /\ dvision' = [seen |-> dvision.seen + 1,
                                  calls |-> IF vision = "raise"
                                            THEN dvision.calls
                                            ELSE dvision.calls + 1]
           ELSE /\ dvision' = [dvision EXCEPT !.seen = dvision.seen + 1]
                /\ UNCHANGED dentities
    /\ UNCHANGED <<dpc, drouter, dreq, dchunks, dcalled, dllm_calls, dresult,
                   dhttp>>
    /\ UNCHANGED otherDocVars

\* After the loops: deduplication and the IngestionResult; the endpoint
\* then builds its response.  An entity whose name is not a string makes
\* the deduplication raise, and the exception leaves _process_document.
DocReturn ==
    /\ dpc = "tier3"
    /\ Len(dcalled) = Len(Tier3Chunks(drouter, dchunks))
    /\ dvision.seen = Len(VisionImages(drouter, dreq.images))
    /\ dresult' =
          IF DedupeRaises(dentities) THEN RaisedResult
          ELSE [returned |-> TRUE,
                raised |-> FALSE,
                entities |-> UniqueEntities(dentities),
                stats |-> Stats(dreq.text, dchunks, dreq.images, dentities,
                                dllm_calls, dvision.calls)]
    /\ dhttp' = IF dreq.via # "endpoint" THEN NoAnswer
                ELSE IF /\ ~DedupeRaises(dentities)
                        /\ ResponseRequired \subseteq ResponseGiven
                THEN [status |-> 200, why |-> "ok"]
                ELSE [status |-> 500, why |-> "exception"]
    /\ dpc' = "done"
    /\ UNCHANGED <<drouter, dreq, dchunks, dcalled, dentities, dllm_calls,
                   dvision>>
    /\ UNCHANGED otherDocVars

\* The ingester is ready for the next document.
DocNext ==
    /\ dpc = "done"
    /\ dpc' = "idle"
    /\ dreq' = [via |-> "none"]
    /\ dchunks' = <<>>
    /\ dcalled' = <<>>
    /\ dentities' = <<>>
    /\ dllm_calls' = 0
    /\ dvision' = [seen |-> 0, calls |-> 0]
    /\ dresult' = NoResult
    /\ dhttp' = NoAnswer
    /\ UNCHANGED drouter
    /\ UNCHANGED otherDocVars

DocInit ==
    /\ dpc = "new"
    /\ drouter = FALSE
    /\ dreq = [via |-> "none"]
    /\ dchunks = <<>>
    /\ dcalled = <<>>
    /\ dentities = <<>>
    /\ dllm_calls = 0
    /\ dvision = [seen |-> 0, calls |-> 0]
    /\ dresult = NoResult
    /\ dhttp = NoAnswer

NextDoc ==
    \/ DocConstruct
    \/ IngestText
    \/ IngestPdf
    \/ IngestDocument
    \/ ExtractWithLlm
    \/ ExtractWithVision
    \/ DocReturn
    \/ DocNext

(***************************************************************************)
(* AI service: VectorIndexBuilder                                          *)
(***************************************************************************)

\* Bounds on the chunks given to build_index and on branching_factor.
MaxLeaves == 9
MaxBranching == 3
\* Cap on the layers built: a build still looping above it is not shrinking
\* its layer.
MaxLayers == MaxLeaves + 1

\* The chunks: n of them, `distinct` different embedding vectors among them.
ChunkLists ==
    {c \in [n : 0..MaxLeaves, distinct : 0..MaxLeaves] :
        /\ c.distinct <= c.n
        /\ c.n >= 1 => c.distinct >= 1}

\* int(np.ceil(a / b)) for a >= 0, b >= 1
CeilDiv(a, b) == (a + b - 1) \div b

\* "num_clusters = max(1, int(np.ceil(num_nodes / self.branching_factor)))"
NumClusters(num_nodes, branching_factor) ==
    Max(1, CeilDiv(num_nodes, branching_factor))

\* KMeans(n_clusters=k).fit_predict leaves a cluster without members when
\* the vectors hold fewer than k distinct points; np.stack([]) in
\* _compress_cluster then raises ValueError.  The vectors of the parents are
\* taken to differ from one another.
EmptyCluster(layers, chunks, num_clusters) ==
    Len(layers) = 1 /\ chunks.distinct < num_clusters

\* VectorIndexBuilder(branching_factor=...)
TreeConstruct ==
    /\ tpc = "new"
    /\ \E b \in 1..MaxBranching : tbuilder' = [branching_factor |-> b]
    /\ tpc' = "idle"
    /\ UNCHANGED <<tchunks, tlayers>>
    /\ UNCHANGED otherTreeVars

\* build_index(chunks): the leaves are the first layer.
BuildIndex ==
    /\ tpc = "idle"
    /\ \E chunks \in ChunkLists :
          /\ tchunks' = chunks
          /\ tlayers' = <<chunks.n>>
    /\ tpc' = "loop"
    /\ UNCHANGED tbuilder
    /\ UNCHANGED otherTreeVars

\* One evaluation of "while len(current_layer) > 1" and of its body:
\* _process_layer builds one parent per cluster.
ProcessLayer ==
    /\ tpc = "loop"
    /\ Len(tlayers) < MaxLayers
    /\ LET current_layer == tlayers[Len(tlayers)]
           num_clusters ==
               NumClusters(current_layer, tbuilder.branching_factor)
       IN  IF ~(current_layer > 1)
           THEN /\ tpc' = "done"
                /\ UNCHANGED tlayers
           ELSE IF EmptyCluster(tlayers, tchunks, num_clusters)
           THEN /\ tpc' = "raised"
                /\ UNCHANGED tlayers
           ELSE /\ tlayers' = Append(tlayers, num_clusters)
                /\ UNCHANGED tpc
    /\ UNCHANGED <<tbuilder, tchunks>>
    /\ UNCHANGED otherTreeVars

\* The caller has the tree or the exception; the builder is free again.
TreeReturn ==
    /\ tpc \in {"done", "raised"}
    /\ tpc' = "idle"
    /\ tchunks' = [n |-> 0, distinct |-> 0]
    /\ tlayers' = <<>>
    /\ UNCHANGED tbuilder
    /\ UNCHANGED otherTreeVars

TreeInit ==
    /\ tpc = "new"
    /\ tbuilder = [branching_factor |-> 10]
    /\ tchunks = [n |-> 0, distinct |-> 0]
    /\ tlayers = <<>>

NextTree ==
    \/ TreeConstruct
    \/ BuildIndex
    \/ ProcessLayer
    \/ TreeReturn

(***************************************************************************)
(* Reflection Loop (spec sections 4.11 and 5)                              *)
(***************************************************************************)

\* Bounds on the scheduler ticks and on the requests served meanwhile.
MaxTicks == 4
MaxRequests == 2

\* The steps of a run: decay, insight generation, summaries.
RunPhases == <<"decay", "insights", "summaries">>

\* Mutant of NoRunActive: a tick starts a run whatever is active.
NoRunActiveIgnored(runs) == TRUE

\* "when the scheduler fires while the previous run is still active"
NoRunActive(runs) == runs = {}

\* The scheduler fires: a run starts, or the tick is skipped and dropped.
ReflectTick ==
    /\ rticks < MaxTicks
    /\ rticks' = rticks + 1
    /\ IF NoRunActive(rruns)
       THEN /\ rruns' = rruns \cup {[id |-> rticks + 1, phase |-> 1]}
            /\ rstarted' = rstarted + 1
            /\ UNCHANGED rskipped
       ELSE /\ rskipped' = rskipped + 1
            /\ UNCHANGED <<rruns, rstarted>>
    /\ UNCHANGED rserved
    /\ UNCHANGED otherRefVars

\* An active run moves to its next step, or ends after the last one.
ReflectStep ==
    /\ \E run \in rruns :
          rruns' = IF run.phase < Len(RunPhases)
                   THEN (rruns \ {run})
                            \cup {[run EXCEPT !.phase = run.phase + 1]}
                   ELSE rruns \ {run}
    /\ UNCHANGED <<rticks, rstarted, rskipped, rserved>>
    /\ UNCHANGED otherRefVars

\* An ingestion job or a consultation is served; neither waits for a run.
ReflectServe ==
    /\ rserved < MaxRequests
    /\ rserved' = rserved + 1
    /\ UNCHANGED <<rruns, rticks, rstarted, rskipped>>
    /\ UNCHANGED otherRefVars

ReflectInit ==
    /\ rruns = {}
    /\ rticks = 0
    /\ rstarted = 0
    /\ rskipped = 0
    /\ rserved = 0

NextReflect ==
    \/ ReflectTick
    \/ ReflectStep
    \/ ReflectServe

(***************************************************************************)
(* FileValidator (src/ai/file_validator.py)                                *)
(***************************************************************************)

\* Bound of the filename, in pieces.
MaxNameLen == 2

MAX_FILE_SIZE == 10 * 1024 * 1024
MIN_FILE_SIZE == 100
MAX_FILENAME_LENGTH == 255

\* A filename is a sequence of pieces; "NUL" is the character \x00 and
\* "a256" a run of 256 letters.
ExtensionPieces == {".txt", ".pdf", ".PDF", ".exe"}
NamePieces == {"a", "..", "/", "NUL", "?", "a256"} \cup ExtensionPieces
Filenames == UNION {[1..n -> NamePieces] : n \in 0..MaxNameLen}

PieceChars(p) ==
    IF p \in {"a", "/", "NUL", "?"} THEN 1
    ELSE IF p = ".." THEN 2
    ELSE IF p = "a256" THEN 256
    ELSE 4

RECURSIVE NameChars(_)
NameChars(filename) ==
    IF filename = <<>> THEN 0
    ELSE PieceChars(Head(filename)) + NameChars(Tail(filename))

\* str.lower() on a piece.
LowerPiece(p) == IF p = ".PDF" THEN ".pdf" ELSE p

\* The decoded content: its encoding, its size, its first bytes and the
\* fragment of text it carries.
FileSizes ==
    {0, MIN_FILE_SIZE - 1, MIN_FILE_SIZE, MAX_FILE_SIZE, MAX_FILE_SIZE + 1,
     MAX_FILE_SIZE + 100}
ContentHeads == {"%PDF-", "{", "plain"}
ContentFragments == {"", "<SCRIPT", "cmd.exe", "AutoOpen", "autoopen"}
Contents ==
    [encoding : {"valid", "invalid"}, size : FileSizes, head : ContentHeads,
     fragment : ContentFragments]

\* bytes.lower() on the fragment.
LowerFragment(f) ==
    IF f = "<SCRIPT" THEN "<script"
    ELSE IF f = "AutoOpen" THEN "autoopen"
    ELSE f

\* len(content_b64): four characters for three bytes; a string that does
\* not decode carries one character more.
Base64Len(content) ==
    4 * ((content.size + 2) \div 3)
        + (IF content.encoding = "invalid" THEN 1 ELSE 0)

ALLOWED_EXTENSIONS ==
    [e \in {".txt", ".md", ".csv"} |-> {""}]
        @@ (".json" :> {"{", "["})
        @@ (".pdf" :> {"%PDF-"})

SUSPICIOUS_PATTERNS == {"<script", "cmd\\.exe", "AutoOpen", "MZ"}

LogLevels == {"WARNING", "ERROR"}

\* logger.warning(..., extra={'filename': filename}): when the level lets
\* the record through, makeRecord refuses to overwrite the attribute
\* "filename" of the LogRecord and raises KeyError.
WarningRaises(level) == level = "WARNING"

FvRaised == [outcome |-> "KeyError", valid |-> FALSE, error_type |-> "none"]
FvValid == [outcome |-> "return", valid |-> TRUE, error_type |-> "none"]
FvInvalid(error_type, logged, level) ==
    IF logged /\ WarningRaises(level)
    THEN FvRaised
    ELSE [outcome |-> "return", valid |-> FALSE, error_type |-> error_type]

HasNullByte(filename) == \E i \in DOMAIN filename : filename[i] = "NUL"
\* PATH_TRAVERSAL = re.compile(r'\.\.[/\\]')
HasPathTraversal(filename) ==
    \E i \in DOMAIN filename :
        /\ filename[i] = ".."
        /\ i + 1 \in DOMAIN filename
        /\ filename[i + 1] = "/"
\* INVALID_CHARS = re.compile(r'[<>:"|?*\x00-\x1f]')
HasInvalidChars(filename) ==
    \E i \in DOMAIN filename : filename[i] \in {"?", "NUL"}

validate_filename(filename, level) ==
    IF filename = <<>> THEN FvInvalid("INVALID_FILENAME", FALSE, level)
    ELSE IF HasNullByte(filename)
    THEN FvInvalid("INVALID_FILENAME", TRUE, level)
    ELSE IF HasPathTraversal(filename)
    THEN FvInvalid("INVALID_FILENAME", TRUE, level)
    ELSE IF HasInvalidChars(filename)
    THEN FvInvalid("INVALID_FILENAME", TRUE, level)
    ELSE IF NameChars(filename) > MAX_FILENAME_LENGTH
    THEN FvInvalid("INVALID_FILENAME", FALSE, level)
    ELSE FvValid

\* os.path.splitext(filename.lower())[1]: the ending after the last dot of
\* the last path component, leading dots not counted.  "" stands for every
\* ending that is not one of the extension pieces.
Basename(filename) ==
    LET slashes == {i \in DOMAIN filename : filename[i] = "/"}
        start == IF slashes = {} THEN 1
                 ELSE (CHOOSE i \in slashes : \A j \in slashes : j <= i) + 1
    IN  SubSeq(filename, start, Len(filename))
_get_extension(filename) ==
    LET base == Basename(filename)
    IN  IF /\ Len(base) >= 2
           /\ base[Len(base)] \in ExtensionPieces
           /\ \E i \in 1..(Len(base) - 1) : base[i] # ".."
        THEN LowerPiece(base[Len(base)])
        ELSE ""

\* content.startswith(magic)
StartsWith(content, magic) == magic = "" \/ content.head = magic

_verify_magic_number(content, extension) ==
    LET allowed_magic ==
            IF extension \in DOMAIN ALLOWED_EXTENSIONS
            THEN ALLOWED_EXTENSIONS[extension] ELSE {}
    IN  IF allowed_magic = {} THEN FALSE
        ELSE IF allowed_magic = {""} THEN TRUE
        ELSE \E magic \in allowed_magic : StartsWith(content, magic)

\* pattern in content_lower or pattern.replace(b' ', b'') in content
_check_suspicious_patterns(content) ==
    {pattern \in SUSPICIOUS_PATTERNS :
        \/ pattern = LowerFragment(content.fragment)
        \/ pattern = content.fragment}

validate_base64_content(content, filename, level) ==
    LET filename_result == validate_filename(filename, level)
        ext == _get_extension(filename)
    IN  IF ~filename_result.valid THEN filename_result
        ELSE IF 3 * Base64Len(content) > 4 * MAX_FILE_SIZE + 300
        THEN FvInvalid("FILE_TOO_LARGE", TRUE, level)
        ELSE IF Base64Len(content) = 0
        THEN FvInvalid("EMPTY_FILE", FALSE, level)
        ELSE IF content.encoding = "invalid"
        THEN FvInvalid("INVALID_BASE64", TRUE, level)
        ELSE IF content.size > MAX_FILE_SIZE
        THEN FvInvalid("FILE_TOO_LARGE", TRUE, level)
        ELSE IF content.size < MIN_FILE_SIZE
        THEN FvInvalid("EMPTY_FILE", TRUE, level)
        ELSE IF ext \notin DOMAIN ALLOWED_EXTENSIONS
        THEN FvInvalid("INVALID_EXTENSION", TRUE, level)
        ELSE IF ~_verify_magic_number(content, ext)
        THEN FvInvalid("MAGIC_MISMATCH", TRUE, level)
        ELSE IF _check_suspicious_patterns(content) # {}
        THEN FvInvalid("SUSPICIOUS_CONTENT", TRUE, level)
        ELSE FvValid

NoUpload == [filename |-> <<>>, content |-> "none"]

\* The host sets the level of the logger "file_validator"; the service
\* itself leaves Python's default, WARNING.
ConfigureLogging ==
    /\ fpc = "idle"
    /\ \E level \in LogLevels : flevel' = level
    /\ flevel' # flevel
    /\ UNCHANGED <<fpc, fcall, fresult>>
    /\ UNCHANGED otherFvVars

ValidateBase64Content ==
    /\ fpc = "idle"
    /\ \E filename \in Filenames, content \in Contents :
          /\ fcall' = [filename |-> filename, content |-> content]
          /\ fresult' = validate_base64_content(content, filename, flevel)
    /\ fpc' = "done"
    /\ UNCHANGED flevel
    /\ UNCHANGED otherFvVars

FvReturn ==
    /\ fpc = "done"
    /\ fpc' = "idle"
    /\ fcall' = NoUpload
    /\ fresult' = FvValid
    /\ UNCHANGED flevel
    /\ UNCHANGED otherFvVars

FvInit ==
    /\ fpc = "idle"
    /\ flevel = "WARNING"
    /\ fcall = NoUpload
    /\ fresult = FvValid

NextValidate ==
    \/ ConfigureLogging
    \/ ValidateBase64Content
    \/ FvReturn

(***************************************************************************)
(* SDK client (src/sdk/python/rmk/client.py)                               *)
(***************************************************************************)

\* Number of different tokens the server issues.
MaxTokens == 3

\* self.token: None, or a string; <<>> is the empty string.
NoToken == [stored |-> FALSE, value |-> <<>>]
Token(value) == [stored |-> TRUE, value |-> value]
TokenStrings == {<<>>} \cup {<<n>> : n \in 1..MaxTokens}

\* _get_headers: "if self.token:" adds the Authorization header.
_get_headers(token) ==
    IF token.stored /\ token.value # <<>>
    THEN {"Content-Type", "Authorization"}
    ELSE {"Content-Type"}

\* What POST /api/login can come to: the connection fails, the status is
\* not a success, the body is not JSON, or the body is a JSON object with
\* the given keys.
LoginReplies ==
    {[kind |-> k, keys |-> {}, token |-> <<>>] :
        k \in {"connect_error", "http_error", "not_json"}}
    \cup {[kind |-> "json", keys |-> keys, token |-> token] :
             keys \in {{}, {"token"}, {"token", "username", "role"},
                       {"token", "username", "role", "expires_at"}},
             token \in TokenStrings}

\* Names of the fields of AuthResponse, and those without a default.
AuthResponseFields == {"token", "username", "role", "groups"}
AuthResponseRequired == {"token", "username", "role"}

\* login: post, _handle_response, self.token = data["token"],
\* AuthResponse(**data).
login(token, reply) ==
    IF reply.kind # "json" THEN [raised |-> TRUE, token |-> token]
    ELSE IF "token" \notin reply.keys THEN [raised |-> TRUE, token |-> token]
    ELSE [raised |-> ~(/\ reply.keys \subseteq AuthResponseFields
                       /\ AuthResponseRequired \subseteq reply.keys),
          token |-> Token(reply.token)]

\* RMKClient.set_token(token)
SdkSetToken ==
    /\ \E value \in TokenStrings :
          /\ sdk_token' = Token(value)
          /\ sdk_last' = [op |-> "set_token", raised |-> FALSE,
                          before |-> sdk_token, headers |-> {}]
    /\ UNCHANGED otherSdkVars

\* RMKClient.clear_token()
SdkClearToken ==
    /\ sdk_token' = NoToken
    /\ sdk_last' = [op |-> "clear_token", raised |-> FALSE,
                    before |-> sdk_token, headers |-> {}]
    /\ UNCHANGED otherSdkVars

\* RMKClient.login(username, password); the request carries no headers of
\* the client.
SdkLogin ==
    /\ \E reply \in LoginReplies :
          LET r == login(sdk_token, reply)
          IN  /\ sdk_token' = r.token
              /\ sdk_last' = [op |-> "login", raised |-> r.raised,
                              before |-> sdk_token, headers |-> {},
                              reply |-> reply]
    /\ UNCHANGED otherSdkVars

\* RMKClient.logout(): "try: post(..., headers=self._get_headers())
\* finally: self.clear_token()".
SdkLogout ==
    /\ \E failed \in BOOLEAN :
          sdk_last' = [op |-> "logout", raised |-> failed,
                       before |-> sdk_token,
                       headers |-> _get_headers(sdk_token)]
    /\ sdk_token' = NoToken
    /\ UNCHANGED otherSdkVars

\* tools_list() or a tool call: a request with headers=self._get_headers().
SdkRequest ==
    /\ \E failed \in BOOLEAN :
          sdk_last' = [op |-> "request", raised |-> failed,
                       before |-> sdk_token,
                       headers |-> _get_headers(sdk_token)]
    /\ UNCHANGED sdk_token
    /\ UNCHANGED otherSdkVars

\* RMKClient(token=None)
SdkInit ==
    /\ sdk_token = NoToken
    /\ sdk_last = [op |-> "none", raised |-> FALSE, before |-> NoToken,
                   headers |-> {}]

NextSdk ==
    \/ SdkSetToken
    \/ SdkClearToken
    \/ SdkLogin
    \/ SdkLogout
    \/ SdkRequest

Init ==
    /\ ChunkInit
    /\ LLMInit
    /\ PolicyInit
    /\ ActInit
    /\ WsInit
    /\ KernelInit
    /\ DocInit
    /\ TreeInit
    /\ ReflectInit
    /\ FvInit
    /\ SdkInit

SpecChunk == Init /\ [][NextChunk]_vars
\* The while loop of chunk() runs on whenever it can.
SpecChunkFair == Init /\ [][NextChunk]_vars /\ WF_vars(ChunkLoop)
SpecLLM == Init /\ [][NextLLM]_vars
SpecPolicy == Init /\ [][NextPolicy]_vars
SpecPolicyCache == Init /\ [][NextPolicyCache]_vars
SpecAct == Init /\ [][NextAct]_vars
SpecInvite == Init /\ [][NextInvite]_vars
SpecAdmin == Init /\ [][NextAdmin]_vars
SpecToken == Init /\ [][NextToken]_vars
SpecIngest == Init /\ [][NextIngest]_vars
SpecConsult == Init /\ [][NextConsult]_vars
SpecDoc == Init /\ [][NextDoc]_vars
SpecReflect == Init /\ [][NextReflect]_vars
SpecValidate == Init /\ [][NextValidate]_vars
SpecSdk == Init /\ [][NextSdk]_vars
\* The loop of build_index runs on whenever it can.
SpecTree == Init /\ [][NextTree]_vars /\ WF_vars(ProcessLayer)

\* Concatenation of the chunk texts, in order.
RECURSIVE ConcatTexts(_)
ConcatTexts(rs) ==
    IF rs = <<>> THEN <<>> ELSE Head(rs).text \o ConcatTexts(Tail(rs))

\* C5: in suffix mode the chunks returned by MemChunker.chunk partition the
\* input: the first starts at 0, each starts where the previous one ends,
\* the last ends at len(text), and the chunk texts concatenated in order are
\* the input.
ChunkPartitionSuffix ==
    (cpc = "done" /\ ~ccfg.prefix_mode) =>
        /\ ConcatTexts(results) = ctext
        /\ results # <<>> =>
              /\ results[1].start_pos = 0
              /\ results[Len(results)].end_pos = Len(ctext)
        /\ \A i \in 1..(Len(results) - 1) :
              results[i + 1].start_pos = results[i].end_pos

\* A suffix-mode call that returned three chunks, one of them produced by the
\* forward fallback (longer than chunk_size) and the last one by the
\* "no delimiter, take all remaining" branch.
ChunkPartitionWitness ==
    /\ cpc = "done"
    /\ ~ccfg.prefix_mode
    /\ ccfg.forward_fallback
    /\ Len(results) >= 3
    /\ \E i \in 1..Len(results) : Len(results[i].text) > ccfg.chunk_size
    /\ Len(results[Len(results)].text) > ccfg.chunk_size


\* C18: for every input and every configuration, no chunk returned by the
\* chunker is longer than twice the chunk size.
ChunkAtMostTwiceSize ==
    \A i \in 1..Len(results) :
        Len(results[i].text) <= 2 * ccfg.chunk_size

\* C19: for every input and every configuration, every chunk of the returned
\* list except the final one has a length of at least a quarter of the chunk
\* size.
ChunkAtLeastQuarterSize ==
    cpc = "done" =>
        \A i \in 1..(Len(results) - 1) :
            4 * Len(results[i].text) >= ccfg.chunk_size

\* The window of chunk_size characters at 0-based position p holds no
\* delimiter, and a delimiter follows it.
ForwardCase(p) ==
    LET delims == StrDelimiters(ccfg)
        target_end == p + ccfg.chunk_size
    IN  /\ \A k \in (p + 1)..Min(target_end, Len(ctext)) :
               ctext[k] \notin delims
        /\ \E k \in (target_end + 1)..Len(ctext) : ctext[k] \in delims

\* 1-based index of the first delimiter after the window at position p.
FirstDelimiterAfterWindow(p) ==
    LET delims == StrDelimiters(ccfg)
        after == {k \in (p + ccfg.chunk_size + 1)..Len(ctext) :
                     ctext[k] \in delims}
    IN  CHOOSE k \in after : \A j \in after : k <= j

\* C20: with forward fallback on in suffix mode, a chunk whose window holds
\* no delimiter extends to and includes the first delimiter after the
\* window; "verylongwordwithoutdelimiters. Next sentence." with size 20 and
\* delimiter '.' yields exactly "verylongwordwithoutdelimiters." and
\* " Next sentence.".
ForwardFallbackToFirstDelimiter ==
    /\ (ccfg.forward_fallback /\ ~ccfg.prefix_mode) =>
          \A i \in 1..Len(results) :
              ForwardCase(results[i].start_pos) =>
                  LET d == FirstDelimiterAfterWindow(results[i].start_pos)
                  IN  /\ results[i].end_pos = d
                      /\ results[i].text =
                             SubSeq(ctext, results[i].start_pos + 1, d)
    /\ (cpc = "done" /\ ctext = ExampleText /\ ccfg = ExampleConfig) =>
          [i \in 1..Len(results) |-> results[i].text] = ExampleChunks

\* The call on the example text has returned its two chunks, the first one
\* cut by the forward search 10 characters past the window.
ForwardFallbackWitness ==
    /\ cpc = "done"
    /\ ctext = ExampleText
    /\ ccfg = ExampleConfig
    /\ Len(results) = 2
    /\ ForwardCase(results[1].start_pos)
    /\ results[1].end_pos = 30

\* The synthesis prompt was sent and the call failed: the provider call
\* raised, or the reply holds no brief.
SynthesisFailed ==
    /\ lreq.endpoint = "synthesize"
    /\ lcalls = 1
    /\ \/ lllm.kind = "error"
       \/ /\ lllm.kind = "content"
          /\ CASE lllm.content.form = "json" ->
                      ~(lllm.content.value.t = "dict"
                        /\ "brief" \in DOMAIN lllm.content.value.v)
               [] OTHER -> TRUE

\* C16: when the synthesis LLM call fails, by raising or by returning
\* output with no brief, synthesis still returns a result, the call is not
\* failed, and the result has confidence 0.
SynthesisDegrades ==
    SynthesisFailed =>
        /\ ~lslm.raised
        /\ lhttp.status = 200
        /\ lslm.value.v.confidence = 0

\* Longest user text a prompt may embed: 5000 characters in the design
\* document, here one less than the longest request text.
MaxPromptChars == MaxQueryLen - 1

\* C17: the user text that extract embeds in the LLM prompt is never longer
\* than the maximum prompt length; a longer input is truncated before the
\* prompt is composed.
PromptUserTextBounded ==
    lprompt.composed => Len(lprompt.user_text) <= MaxPromptChars

\* C14: tier-3 LLM extraction is invoked only on the representative chunks,
\* one chunk in every 5 taken in chunk order, and on at most 10 of them: one
\* document ingestion makes at most 10 LLM extraction calls, whatever the
\* number of chunks.
LLMOnRepresentativesWithinBudget ==
    /\ Len(dcalled) <= LLMCallBudget
    /\ \A i \in 1..Len(dcalled) :
          /\ dcalled[i] = RepresentativeStride * (i - 1)
          /\ dcalled[i] < Len(dchunks)

\* A document of more than 50 chunks, hence of more than 10 representatives,
\* was ingested with exactly 10 extraction calls, one of which raised.
LLMBudgetWitness ==
    /\ dpc = "done"
    /\ Len(ClusterReps(dchunks)) > LLMCallBudget
    /\ Len(dcalled) = LLMCallBudget
    /\ dllm_calls = LLMCallBudget - 1

\* The call or request carried the empty text and has been answered.
EmptyInputIngested ==
    /\ dpc = "done"
    /\ dreq.text.kind = "empty"

\* C15: ingesting an empty input completes successfully, with no error
\* response, with every returned statistic equal to zero and without any
\* LLM call.
EmptyInputSucceeds ==
    EmptyInputIngested =>
        /\ dhttp.status # 500
        /\ dresult.returned
        /\ \A k \in DOMAIN dresult.stats : dresult.stats[k] = 0
        /\ dcalled = <<>>


\* The layers of a returned tree: every layer above the leaves holds
\* ceil(n_layer / branching) parents and the last layer is a single root.
SingleRootTree ==
    /\ tlayers[Len(tlayers)] = 1
    /\ \A i \in 2..Len(tlayers) :
          tlayers[i] = CeilDiv(tlayers[i - 1], tbuilder.branching_factor)

\* C21: for every list of n >= 1 embedded chunks and every branching factor,
\* build_index terminates, and the tree it returns has exactly one node of
\* maximal depth, each layer above the leaves holding
\* ceil(n_layer / branching) parents.
BuildIndexSingleRoot ==
    /\ []((tpc = "done" /\ tchunks.n >= 1) => SingleRootTree)
    /\ ((tpc = "loop" /\ tchunks.n >= 1) ~> (tpc = "done"))


\* The decision the current policy set gives for a cache key.
CurrentDecision(key) == Evaluate(policies, key[1], key[2], key[3])

FailedChecks(call) ==
    LET filename == call.filename
        content == call.content
        ext == _get_extension(filename)
    IN  (IF \/ filename = <<>>
            \/ NameChars(filename) > MAX_FILENAME_LENGTH
            \/ HasNullByte(filename)
            \/ HasPathTraversal(filename)
            \/ HasInvalidChars(filename)
         THEN {"INVALID_FILENAME"} ELSE {})
        \cup (IF content.size > MAX_FILE_SIZE THEN {"FILE_TOO_LARGE"} ELSE {})
        \cup (IF content.size < MIN_FILE_SIZE THEN {"EMPTY_FILE"} ELSE {})
        \cup (IF ext \notin DOMAIN ALLOWED_EXTENSIONS
              THEN {"INVALID_EXTENSION"}
              ELSE IF \A magic \in ALLOWED_EXTENSIONS[ext] :
                          ~StartsWith(content, magic)
              THEN {"MAGIC_MISMATCH"} ELSE {})
        \cup (IF _check_suspicious_patterns(content) # {}
              THEN {"SUSPICIOUS_CONTENT"} ELSE {})

\* C24: validate_base64_content answers every decodable upload with a
\* ValidationResult; the result is valid only when no check fails (filename,
\* size between 100 bytes and 10 MiB inclusive, extension, magic prefix,
\* suspicious markers), and when a check fails it is valid = false with the
\* error type of a failed check.
ValidOnlyWhenEveryCheckPasses ==
    (fpc = "done" /\ fcall.content.encoding = "valid")
        => /\ fresult.outcome = "return"
           /\ FailedChecks(fcall) # {}
                => /\ ~fresult.valid
                   /\ fresult.error_type \in FailedChecks(fcall)

\* A request without text and without content_base64 has been answered.
MalformedAnswered(endpoint) ==
    /\ dpc = "done"
    /\ dreq.via = "endpoint"
    /\ dreq.text.kind = "none"
    /\ "endpoint" \in DOMAIN dreq
    /\ dreq.endpoint = endpoint
    /\ dreq.content_base64 = "none"

\* C25: a request that carries neither text nor content_base64 is answered
\* with HTTP 400 (InvalidInput), not with HTTP 500, on /ingest-document,
\* /ingest-vector-tree and /ingest.
MalformedRequestIs400 ==
    \A endpoint \in Endpoints :
        MalformedAnswered(endpoint) => dhttp.status = 400

\* The tier-3 loop of a document has ended and at least one of its
\* extraction calls returned a named entity.
SomeChunkExtracted ==
    /\ dpc = "done"
    /\ dllm_calls >= 1
    /\ \E i \in DOMAIN dentities :
          dentities[i].source = "llm" /\ dentities[i].name # "None"

\* C26: an extraction call that raises on one representative chunk neither
\* ends the loop nor fails the ingestion: every representative within the
\* budget is tried, and unless every call failed the job returns a result
\* that holds the entities of tier 1 and of the calls that succeeded.
ChunkFailuresTolerated ==
    SomeChunkExtracted =>
        /\ Len(dcalled) = Len(Tier3Chunks(drouter, dchunks))
        /\ dresult.returned
        /\ \A i \in DOMAIN dentities :
              \E j \in DOMAIN dresult.entities :
                  EntityKey(dresult.entities[j]) = EntityKey(dentities[i])

\* Position of a source in the order of extraction.
TierRank(source) ==
    IF source = "rule" THEN 1 ELSE IF source = "llm" THEN 2 ELSE 3

\* The first entity of `entities` that has the key of e.
FirstOccurrence(entities, e) ==
    entities[CHOOSE i \in DOMAIN entities :
                /\ EntityKey(entities[i]) = EntityKey(e)
                /\ \A k \in 1..(i - 1) :
                      EntityKey(entities[k]) # EntityKey(e)]

\* C29: in every IngestionResult of _process_document no two entities have
\* the same (lower-cased name, entity type) pair; the entity kept for a pair
\* is the first one extracted, tier 1 before LLM before vision; and
\* stats.total_entities is the number of entities returned.
EntitiesUniqueFirstKept ==
    dresult.returned =>
        /\ \A i, j \in DOMAIN dresult.entities :
              EntityKey(dresult.entities[i]) = EntityKey(dresult.entities[j])
                  => i = j
        /\ \A i, k \in DOMAIN dentities :
              i < k => TierRank(dentities[i].source)
                           <= TierRank(dentities[k].source)
        /\ \A j \in DOMAIN dresult.entities :
              dresult.entities[j]
                  = FirstOccurrence(dentities, dresult.entities[j])
        /\ dresult.stats.total_entities = Len(dresult.entities)

\* Tier 1, an LLM call and a vision call each extracted the same address in
\* a different case, and the result holds the one of tier 1 alone.
EntitiesUniqueWitness ==
    /\ dresult.returned
    /\ \A source \in {"rule", "llm", "vision"} :
          \E i \in DOMAIN dentities : dentities[i].source = source
    /\ Len(dentities) >= 4
    /\ Len(dresult.entities) = 1
    /\ dresult.entities[1].name = "Bob@x.io"

\* resolve has returned a decision for a /curate request.
DecisionReturned ==
    /\ lpc = "done"
    /\ lreq.endpoint = "curate"
    /\ ~lslm.raised

\* C28: whatever the LLM replies, the decision that CurationSLM.resolve
\* returns carries a winner_index, and it is 1 or 2.
WinnerIndexOneOrTwo ==
    DecisionReturned =>
        /\ lslm.value.t = "dict"
        /\ "winner_index" \in DOMAIN lslm.value.v
        /\ lslm.value.v.winner_index \in {1, 2}

\* C27: chunk() terminates on every non-empty text for every configuration
\* with chunk_size >= 1, prefix mode included: an iteration of the loop that
\* emits a chunk and stays in the loop moves the scan position forward, so
\* a call never emits more chunks than its text has characters.
ChunkTerminates ==
    /\ [][(cpc = "loop" /\ cpc' = "loop" /\ results' # results)
              => position' > position]_vars
    /\ [](ctext # <<>> => Len(results) <= Len(ctext))

\* A token is stored: self.token is a string that is not empty.
TokenStored(token) == token.stored /\ token.value # <<>>

\* C30: after any sequence of login, logout, set_token and clear_token
\* calls, a login that raised left self.token as it was, a logout left it
\* cleared whether or not its request failed, and a request carried the
\* Authorization header exactly when a token was stored.
TokenHandling ==
    /\ (sdk_last.op = "login" /\ sdk_last.raised)
           => sdk_token = sdk_last.before
    /\ sdk_last.op = "logout" => sdk_token = NoToken
    /\ sdk_last.op \in {"logout", "request"}
           => ("Authorization" \in sdk_last.headers
                   <=> TokenStored(sdk_last.before))

====
